---------------------------- MODULE Spec2Model ----------------------------
(***************************************************************************)
(* Property resolution of hagadias' QudObjectProps                         *)
(* (src/hagadias/qudobject_props.py).                                      *)
(*                                                                         *)
(* An entity is an immutable record of resolved fields.  A behaviour picks *)
(* one entity (Init) and then evaluates derived properties on it; every    *)
(* evaluation is a pure read that leaves the entity unchanged and records  *)
(* the evaluated property in `query` and its outcome in `result`.          *)
(*                                                                         *)
(* Python values are records [tag, n, s]:                                  *)
(*   None          tag = "None"                                            *)
(*   int n         tag = "int",   n = the integer                          *)
(*   str           tag = "str",   s = the sequence of its characters; a    *)
(*                 character that cannot be written in a TLA+ string is    *)
(*                 the text of its Python escape: "\\x0b" is the vertical  *)
(*                 tab, "\\xa0" the no-break space, "\\u0663" the          *)
(*                 Arabic-Indic digit three (see Escape)                   *)
(*   float         tag = "float", n = k: the double the code computes for  *)
(*                 the boost factor whose exact value is k/20; products   *)
(*                 with it are formed in double arithmetic (see boosted)  *)
(*   a raised exception: tag = the exception's name                        *)
(***************************************************************************)
EXTENDS Integers, Sequences, FiniteSets, TLC

VARIABLES ent, query, result

vars == <<ent, query, result>>

-----------------------------------------------------------------------------
(* Python values *)

PyNone == [tag |-> "None", n |-> 0, s |-> <<>>]

PyInt(k) == [tag |-> "int", n |-> k, s |-> <<>>]

PyStr(cs) == [tag |-> "str", n |-> 0, s |-> cs]

PyFloat20(k) == [tag |-> "float", n |-> k, s |-> <<>>]

Raise(exc) == [tag |-> exc, n |-> 0, s |-> <<>>]

Exceptions == {"TypeError", "ValueError", "KeyError", "AttributeError", "IndexError"}

IsNone(x) == x.tag = "None"

IsInt(x) == x.tag = "int"

IsStr(x) == x.tag = "str"

IsErr(x) == x.tag \in Exceptions

\* Python truth value of None, a str or an int: None, "" and 0 are false.
Truthy(x) ==
    CASE x.tag = "None" -> FALSE
      [] x.tag = "str"  -> Len(x.s) > 0
      [] x.tag = "int"  -> x.n # 0
      [] OTHER          -> TRUE

-----------------------------------------------------------------------------
(* Integer arithmetic of Python *)

\* a // b for b > 0: rounds toward negative infinity.
FloorDiv(a, b) == a \div b

\* int(a / b) for b > 0: int() of a float truncates toward zero.
TruncDiv(a, b) == IF a >= 0 THEN a \div b ELSE -((-a) \div b)

\* math.ceil(a / b) for b > 0.
CeilDiv(a, b) == -((-a) \div b)

-----------------------------------------------------------------------------
(* Characters outside the TLA+ string syntax *)

HexDigits ==
    <<"0", "1", "2", "3", "4", "5", "6", "7", "8", "9", "a", "b", "c", "d", "e", "f">>

RECURSIVE Hex(_, _)
\* n in hexadecimal, width digits.
Hex(n, width) ==
    IF width = 0 THEN "" ELSE Hex(n \div 16, width - 1) \o HexDigits[(n % 16) + 1]

\* The character with code point cp, written as Python writes it in repr():
\* \xhh, \uhhhh or \Uhhhhhhhh.
Escape(cp) ==
    IF cp < 256 THEN "\\x" \o Hex(cp, 2)
    ELSE IF cp < 65536 THEN "\\u" \o Hex(cp, 4)
    ELSE "\\U" \o Hex(cp, 8)

\* A character given by its escape rather than by itself.
Escaped(c) == Len(c) > 1

\* The code points, other than blank, \t, \n, \r and \f, that int() ignores
\* around a literal: the vertical tab and the Unicode spaces (U+0085, U+00A0,
\* U+1680, U+2000..U+200A, U+2028, U+2029, U+202F, U+205F, U+3000).
SpaceCodePoints ==
    {11, 133, 160, 5760} \cup 8192..8202 \cup {8232, 8233, 8239, 8287, 12288}

\* The separators U+001C..U+001F: white space for str.split() and
\* str.isspace(), but not for int().
SeparatorCodePoints == 28..31

\* The code points of the zero of every run of Unicode decimal digits
\* (category Nd) other than the ASCII digits; the digit d of a run is at
\* zero + d.
DecimalZeros ==
    {1632, 1776, 1984, 2406, 2534, 2662, 2790, 2918, 3046, 3174, 3302,
     3430, 3558, 3664, 3792, 3872, 4160, 4240, 6112, 6160, 6470, 6608,
     6784, 6800, 6992, 7088, 7232, 7248, 42528, 43216, 43264, 43472, 43504,
     43600, 44016, 65296, 66720, 68912, 69734, 69872, 69942, 70096, 70384,
     70736, 70864, 71248, 71360, 71472, 71904, 72016, 72784, 73040, 73120,
     92768, 92864, 93008, 120782, 120792, 120802, 120812, 120822, 123200,
     123632, 125264, 130032}

\* The code points str.isdigit() accepts that are no decimal digits
\* (superscripts, circled digits, ...): int() rejects them.
OtherDigitCodePoints ==
    178..179
        \cup {185}
        \cup 4969..4977
        \cup {6618}
        \cup {8304}
        \cup 8308..8313
        \cup 8320..8329
        \cup 9312..9320
        \cup 9332..9340
        \cup 9352..9360
        \cup {9450}
        \cup 9461..9469
        \cup {9471}
        \cup 10102..10110
        \cup 10112..10120
        \cup 10122..10130
        \cup 68160..68163
        \cup 69216..69224
        \cup 69714..69722
        \cup 127232..127242

-----------------------------------------------------------------------------
(* Strings: decimal text <-> integer *)

\* The digits str() of an int is written with.
Digits == <<"0", "1", "2", "3", "4", "5", "6", "7", "8", "9">>

IsDigit(c) == \E i \in 1..10 : Digits[i] = c

DigitVal(c) == (CHOOSE i \in 1..10 : Digits[i] = c) - 1

AllDigits(cs) == Len(cs) > 0 /\ \A i \in 1..Len(cs) : IsDigit(cs[i])

RECURSIVE NatVal(_)
NatVal(cs) ==
    IF Len(cs) = 0 THEN 0
    ELSE 10 * NatVal(SubSeq(cs, 1, Len(cs) - 1)) + DigitVal(cs[Len(cs)])

RECURSIVE NatText(_)
NatText(k) ==
    IF k < 10 THEN <<Digits[k + 1]>>
    ELSE NatText(k \div 10) \o <<Digits[(k % 10) + 1]>>

\* str(k) of an int k.
IntText(k) == IF k < 0 THEN <<"-">> \o NatText(-k) ELSE NatText(k)

\* A plain decimal text, as str() of an int writes it (a leading + is allowed
\* too): an optional sign and digits 0..9.
IsIntText(cs) ==
    \/ AllDigits(cs)
    \/ Len(cs) > 1 /\ cs[1] \in {"-", "+"} /\ AllDigits(Tail(cs))

IntTextVal(cs) ==
    IF cs[1] = "-" THEN -NatVal(Tail(cs))
    ELSE IF cs[1] = "+" THEN NatVal(Tail(cs))
    ELSE NatVal(cs)

\* The decimal digits with value d: the ASCII digit and the digit of every
\* other Unicode run.
DecimalDigits ==
    [d \in 0..9 |-> {Digits[d + 1]} \cup {Escape(z + d) : z \in DecimalZeros}]

\* c is a decimal digit for int() and str.isdecimal().
IsDecimal(c) ==
    IsDigit(c) \/ (Escaped(c) /\ \E d \in 0..9 : c \in DecimalDigits[d])

DecimalVal(c) == CHOOSE d \in 0..9 : c \in DecimalDigits[d]

RECURSIVE DecimalNatVal(_)
\* The value of a text of decimal digits.
DecimalNatVal(cs) ==
    IF Len(cs) = 0 THEN 0
    ELSE 10 * DecimalNatVal(SubSeq(cs, 1, Len(cs) - 1)) + DecimalVal(cs[Len(cs)])

OtherDigits == {Escape(cp) : cp \in OtherDigitCodePoints}

\* c.isdigit()
str_isdigit(c) == IsDecimal(c) \/ (Escaped(c) /\ c \in OtherDigits)

\* The characters int() ignores around a literal.
WhiteSpace ==
    {" ", "\t", "\n", "\r", "\f"} \cup {Escape(cp) : cp \in SpaceCodePoints}

\* The characters str.split() separates words at.
StrWhiteSpace == WhiteSpace \cup {Escape(cp) : cp \in SeparatorCodePoints}

RECURSIVE StripLeft(_)
StripLeft(cs) ==
    IF Len(cs) > 0 /\ cs[1] \in WhiteSpace THEN StripLeft(Tail(cs)) ELSE cs

RECURSIVE StripRight(_)
StripRight(cs) ==
    IF Len(cs) > 0 /\ cs[Len(cs)] \in WhiteSpace
    THEN StripRight(SubSeq(cs, 1, Len(cs) - 1))
    ELSE cs

\* cs without the white space int() ignores at both ends.
Strip(cs) == StripRight(StripLeft(cs))

\* The digits of an int() literal: digits, with single underscores between them.
IsDigitGroup(cs) ==
    /\ Len(cs) > 0
    /\ IsDecimal(cs[1]) /\ IsDecimal(cs[Len(cs)])
    /\ \A i \in 1..Len(cs) : IsDecimal(cs[i]) \/ cs[i] = "_"
    /\ \A i \in 1..(Len(cs) - 1) : ~(cs[i] = "_" /\ cs[i + 1] = "_")

\* cs without its underscores.
Ungrouped(cs) == SelectSeq(cs, LAMBDA c : c # "_")

\* The text of a str that int() accepts, white space around it stripped:
\* an optional sign and a group of digits.
Unsigned(cs) == IF Len(cs) > 0 /\ cs[1] \in {"-", "+"} THEN Tail(cs) ELSE cs

IsIntLiteral(cs) == IsDigitGroup(Unsigned(cs))

IntLiteralVal(cs) ==
    (IF cs[1] = "-" THEN -1 ELSE 1) * DecimalNatVal(Ungrouped(Unsigned(cs)))

\* int() of the text cs once the surrounding white space is removed.
int_of_literal(cs) ==
    IF IsIntLiteral(cs) THEN PyInt(IntLiteralVal(cs)) ELSE Raise("ValueError")

\* Python's int(x): TypeError on None, ValueError on a str that is no integer
\* literal; white space around the literal and underscores between its
\* digits are accepted.
py_int(x) ==
    CASE IsErr(x)       -> x
      [] x.tag = "None" -> Raise("TypeError")
      [] x.tag = "int"  -> x
      [] x.tag = "str"  -> int_of_literal(Strip(x.s))
      [] OTHER          -> Raise("TypeError")

\* hagadias.helpers.int_or_none: int(value) unless value is None.
int_or_none(x) == IF IsNone(x) THEN PyNone ELSE py_int(x)

\* Index of the first occurrence of character c in cs, 0 if there is none.
IndexOf(cs, c) ==
    IF \E i \in 1..Len(cs) : cs[i] = c
    THEN CHOOSE i \in 1..Len(cs) : cs[i] = c /\ \A j \in 1..(i - 1) : cs[j] # c
    ELSE 0

\* s.split(c)[0]
SplitFirst(cs, c) ==
    IF IndexOf(cs, c) = 0 THEN cs ELSE SubSeq(cs, 1, IndexOf(cs, c) - 1)

-----------------------------------------------------------------------------
(* DiceBag: minimum, maximum and average of a dice expression.             *)
(* avg2 is twice the average, so that a half stays an integer.             *)

Malformed == [ok |-> FALSE, min |-> 0, max |-> 0, avg2 |-> 0]

Dice(lo, hi, twiceAvg) == [ok |-> TRUE, min |-> lo, max |-> hi, avg2 |-> twiceAvg]

\* "AdB", "AdB+C", "AdB-C" with A, B >= 1, given the position p of the "d".
DiceBagDie(cs, p) ==
    LET a    == SubSeq(cs, 1, p - 1)
        rest == SubSeq(cs, p + 1, Len(cs))
        plus == IndexOf(rest, "+")
        minus == IndexOf(rest, "-")
        q    == IF plus > 0 THEN plus ELSE minus
        b    == IF q = 0 THEN rest ELSE SubSeq(rest, 1, q - 1)
        c    == IF q = 0 THEN <<"0">> ELSE SubSeq(rest, q + 1, Len(rest))
    IN  IF AllDigits(a) /\ AllDigits(b) /\ AllDigits(c)
           /\ NatVal(a) >= 1 /\ NatVal(b) >= 1
        THEN LET A == NatVal(a)
                 B == NatVal(b)
                 C == IF q > 0 /\ plus = 0 THEN -NatVal(c) ELSE NatVal(c)
             IN  Dice(A + C, A * B + C, A * (B + 1) + 2 * C)
        ELSE Malformed

\* "N-M" with N <= M, given the position p of the "-".
DiceBagRange(cs, p) ==
    LET lo == SubSeq(cs, 1, p - 1)
        hi == SubSeq(cs, p + 1, Len(cs))
    IN  IF AllDigits(lo) /\ AllDigits(hi) /\ NatVal(lo) <= NatVal(hi)
        THEN Dice(NatVal(lo), NatVal(hi), NatVal(lo) + NatVal(hi))
        ELSE Malformed

DiceBag(cs) ==
    IF IndexOf(cs, "d") > 0 THEN DiceBagDie(cs, IndexOf(cs, "d"))
    ELSE IF IndexOf(cs, "-") > 1 THEN DiceBagRange(cs, IndexOf(cs, "-"))
    ELSE IF IsIntText(cs)
         THEN Dice(IntTextVal(cs), IntTextVal(cs), 2 * IntTextVal(cs))
    ELSE Malformed

-----------------------------------------------------------------------------
(* sValue: a level-scaled specification is a sequence of tiers             *)
(* [from, dice]; it resolves to the dice string of the tier with the       *)
(* highest threshold <= level, or of the nearest (lowest) tier.            *)

sValue(tiers, level) ==
    LET below == {i \in 1..Len(tiers) : tiers[i].from <= level}
        pick  == IF below # {}
                 THEN CHOOSE i \in below : \A j \in below : tiers[j].from <= tiers[i].from
                 ELSE CHOOSE i \in 1..Len(tiers) :
                          \A j \in 1..Len(tiers) : tiers[i].from <= tiers[j].from
    IN  tiers[pick].dice

-----------------------------------------------------------------------------
(* Text constants *)

T_false == <<"f", "a", "l", "s", "e">>

T_False == <<"F", "a", "l", "s", "e">>

T_true == <<"t", "r", "u", "e">>

T_Minion == <<"M", "i", "n", "i", "o", "n">>

T_Hero == <<"H", "e", "r", "o">>

T_Body == <<"B", "o", "d", "y">>

T_Head == <<"H", "e", "a", "d">>

T_Arm == <<"A", "r", "m">>

\* character_codes.STAT_NAMES: the recognized core attributes.
STAT_NAMES == {"Strength", "Agility", "Toughness", "Intelligence", "Willpower", "Ego"}

\* The attributes an entity of the model carries stat fields for.
AttrNames == {"Strength", "Agility", "Willpower", "Hitpoints"}

ACTIVE_CHAR == 1

INACTIVE_CHAR == 2

-----------------------------------------------------------------------------
(* Entities *)

\* The elements resistance() is asked about (acid, cold, electric, heat).
Elements == {"Acid", "Cold", "Electric", "Heat"}

\* The names the Armor part has for them ("Elec" is its short form).
ArmorElements == {"Acid", "Cold", "Elec", "Heat"}

\* stat_<attr>_sValue, stat_<attr>_Value, stat_<attr>_Boost
NoStat == [sValue |-> PyNone, Value |-> PyNone, Boost |-> PyNone]

\* The loader fields projectile_object reads, in the order it tries them.
LoaderFields ==
    << "part_BioAmmoLoader_ProjectileObject",
       "part_AmmoArrow_ProjectileObject",
       "part_MagazineAmmoLoader_ProjectileObject",
       "part_EnergyAmmoLoader_ProjectileObject",
       "part_LiquidAmmoLoader_ProjectileObject" >>

\* The fields read from a projectile.
ProjectileAttrs ==
    {"part_Projectile_Attributes", "part_Projectile_BaseDamage",
     "part_Projectile_BasePenetration", "part_Projectile_PenetrateCreatures",
     "part_GasOnHit_Blueprint", "part_TemperatureOnHit_Amount",
     "part_TreatAsSolid_RealityDistortionBased",
     "part_VampiricWeapon_RealityDistortionBased"}

\* The fields of the entity itself that the projectile properties read.
OwnWeaponFields ==
    {"part_MissileWeapon", "part_MeleeWeapon_BaseDamage", "part_MeleeWeapon_PenBonus",
     "part_Gaslight", "part_Gaslight_ChargedDamage",
     "part_Gaslight_ChargedPenetrationBonus",
     "part_ThrownWeapon", "part_ThrownWeapon_Damage", "part_ThrownWeapon_Penetration",
     "part_GeomagneticDisc_Damage",
     "part_MechanicalWings_IsRealityDistortionBased",
     "part_DeploymentGrenade_UsabilityEvent",
     "part_Displacer", "part_SpaceTimeVortex", "part_EngulfingClones",
     "part_GreaterVoider"}

WeaponFields ==
    {LoaderFields[i] : i \in 1..Len(LoaderFields)} \cup ProjectileAttrs \cup OwnWeaponFields

\* An entity with every field unset.
Blank ==
    [ name                    |-> <<"O", "b", "j", "e", "c", "t">>,
      specified               |-> {},
      part_Physics_Takeable   |-> PyNone,
      part_Gas                |-> FALSE,
      part_Combat             |-> FALSE,
      part_Brain              |-> FALSE,
      part_Brain_Mobile       |-> PyNone,
      inherits_Armor          |-> FALSE,
      property_Role_Value     |-> PyNone,
      stat_Level_sValue       |-> PyNone,
      stat_Level_Value        |-> PyNone,
      stat                    |-> [a \in AttrNames |-> NoStat],
      part_Armor              |-> [a \in AttrNames |-> PyNone],
      stat_AV_Value           |-> PyNone,
      stat_DV_Value           |-> PyNone,
      part_Armor_AV           |-> PyNone,
      part_Armor_DV           |-> PyNone,
      part_Armor_WornOn       |-> PyNone,
      part_Shield_AV          |-> PyNone,
      part_Shield_DV          |-> PyNone,
      part_Shield_WornOn      |-> PyNone,
      skill_Acrobatics_Dodge  |-> FALSE,
      skill_Acrobatics_Tumble |-> FALSE,
      mutation                |-> <<>>,
      inventoryobject         |-> <<>>,
      part_MentalShield       |-> FALSE,
      part_Roboticized        |-> FALSE,
      part_Roboticized_ChanceOneIn |-> PyNone,
      stat_MA_Value           |-> PyNone,
      stat_Speed_Value        |-> PyNone,
      part_Armor_SpeedBonus   |-> PyNone,
      stat_Resistance_Value   |-> [el \in Elements |-> PyNone],
      part_Armor_Resistance   |-> [el \in ArmorElements |-> PyNone],
      part                    |-> <<>>,
      tag_Tier_Value          |-> PyNone,
      part_TinkerItem_Bits    |-> PyNone,
      stat_XPValue_sValue     |-> PyNone,
      stat_XPValue_Value      |-> PyNone,
      part_Examiner_Complexity       |-> PyNone,
      part_AddMod_Mods               |-> PyNone,
      part_TinkerItem_CanBuild       |-> PyNone,
      part_TinkerItem_CanDisassemble |-> PyNone,
      inherits_MeleeWeapon           |-> FALSE,
      field                          |-> [f \in WeaponFields |-> PyNone] ]

\* QudObject.is_specified: the field is set on the entity itself.
is_specified(e, field) == field \in e.specified

-----------------------------------------------------------------------------
(* Property helpers *)

\* Variant: one of the Combat and Brain parts is enough to be active.
active_or_inactive_character_either_part(e) ==
    IF /\ \/ e.part_Physics_Takeable = PyStr(T_false)
          \/ e.part_Physics_Takeable = PyStr(T_False)
       /\ ~e.part_Gas
    THEN IF e.part_Combat \/ e.part_Brain THEN 1 ELSE 2
    ELSE 0

active_or_inactive_character(e) ==
    IF /\ \/ e.part_Physics_Takeable = PyStr(T_false)
          \/ e.part_Physics_Takeable = PyStr(T_False)
       /\ ~e.part_Gas
    THEN IF e.part_Combat /\ e.part_Brain THEN 1 ELSE 2
    ELSE 0

lv(e) ==
    IF IsNone(e.stat_Level_sValue) THEN e.stat_Level_Value ELSE e.stat_Level_sValue

role(e) == e.property_Role_Value

\* try: int(self.lv)  except ValueError: int(self.lv.split('-')[0])
range_level(lvl, first) ==
    IF first.tag = "ValueError" THEN py_int(PyStr(SplitFirst(lvl.s, "-"))) ELSE first

level_of(lvl) == range_level(lvl, py_int(lvl))

\* Variant of attribute_helper that reads the flat Value field first.
attribute_helper_flat_first(e, attr) ==
    IF active_or_inactive_character(e) = ACTIVE_CHAR
    THEN IF Truthy(e.stat[attr].Value) THEN e.stat[attr].Value
         ELSE IF Truthy(e.stat[attr].sValue)
         THEN LET level == level_of(lv(e))
              IN  IF IsErr(level) THEN level
                  ELSE PyStr(sValue(e.stat[attr].sValue.s, level.n))
         ELSE PyNone
    ELSE IF e.inherits_Armor THEN e.part_Armor[attr]
    ELSE PyNone

\* str(sValue(self.stat_<attr>_sValue, level=level))
scaled_value(tiers, level) ==
    IF IsErr(level) THEN level ELSE PyStr(sValue(tiers, level.n))

attribute_helper(e, attr) ==
    IF active_or_inactive_character(e) = ACTIVE_CHAR
    THEN IF Truthy(e.stat[attr].sValue)
         THEN scaled_value(e.stat[attr].sValue.s, level_of(lv(e)))
         ELSE IF Truthy(e.stat[attr].Value) THEN e.stat[attr].Value
         ELSE PyNone
    ELSE IF e.inherits_Armor THEN e.part_Armor[attr]
    ELSE PyNone

\* Variant of minion_boost that lowers the tier of a minion for any attribute.
minion_boost_any_attr(e, attr, boost) ==
    IF role(e) = PyStr(T_Minion) THEN boost - 1 ELSE boost

\* if self.role == 'Minion' and attr in STAT_NAMES: boost -= 1
minion_boost(e, attr, boost) ==
    IF role(e) = PyStr(T_Minion) /\ attr \in STAT_NAMES THEN boost - 1 ELSE boost

\* Variant of boost_formula that takes the magnitude of a negative tier.
boost_formula_abs(boost) ==
    IF boost > 0 THEN 5 * boost + 20 ELSE 4 * (-boost) + 20

\* 0.25 * boost + 1.0 for boost > 0, else 0.20 * boost + 1.0, named by its
\* exact value in twentieths; the double the code computes for a boost <= 0
\* is negative_boost_factor.
boost_formula(boost) ==
    IF boost > 0 THEN 5 * boost + 20 ELSE 4 * boost + 20

\* Variant of attribute_boost_factor that does not ask for an sValue.
attribute_boost_factor_any_value(e, attr) ==
    IF active_or_inactive_character(e) = ACTIVE_CHAR
    THEN LET boost == int_or_none(e.stat[attr].Boost)
         IN  IF IsErr(boost) THEN boost
             ELSE IF ~IsNone(boost)
                  THEN PyFloat20(boost_formula(minion_boost(e, attr, boost.n)))
             ELSE PyNone
    ELSE PyNone

\* The factor for the Boost tier read from the field.
factor_of_boost(e, attr, boost) ==
    IF IsErr(boost) THEN boost
    ELSE IF ~IsNone(boost) /\ Truthy(e.stat[attr].sValue)
         THEN PyFloat20(boost_formula(minion_boost(e, attr, boost.n)))
    ELSE PyNone

attribute_boost_factor(e, attr) ==
    IF active_or_inactive_character(e) = ACTIVE_CHAR
    THEN factor_of_boost(e, attr, int_or_none(e.stat[attr].Boost))
    ELSE PyNone

\* Variant of plain_value with minimum and maximum exchanged.
plain_value_exchanged(dice, mode) ==
    IF mode = "min" THEN dice.max
    ELSE IF mode = "max" THEN dice.min
    ELSE TruncDiv(dice.avg2, 2)

\* The three statmodes of an unboosted dice bag.
plain_value(dice, mode) ==
    IF mode = "min" THEN dice.min
    ELSE IF mode = "max" THEN dice.max
    ELSE TruncDiv(dice.avg2, 2)

\* Python floats are IEEE-754 doubles.  A double is sign * m * 2^e with m a
\* natural number of at most 53 bits; m is kept as a sequence of limbs of 15
\* bits, lowest first, so that no intermediate product leaves 32 bits.
Limb == 2^15

RECURSIVE BigOf(_)
\* The limbs of a natural number.
BigOf(k) == IF k = 0 THEN <<>> ELSE <<k % Limb>> \o BigOf(k \div Limb)

RECURSIVE BigToInt(_)
BigToInt(a) == IF a = <<>> THEN 0 ELSE a[1] + Limb * BigToInt(Tail(a))

RECURSIVE BigTrim(_)
BigTrim(a) ==
    IF Len(a) > 0 /\ a[Len(a)] = 0 THEN BigTrim(SubSeq(a, 1, Len(a) - 1)) ELSE a

RECURSIVE BigAdd(_, _, _)
BigAdd(a, b, carry) ==
    IF a = <<>> /\ b = <<>> THEN (IF carry = 0 THEN <<>> ELSE <<carry>>)
    ELSE LET x == (IF a = <<>> THEN 0 ELSE a[1]) + (IF b = <<>> THEN 0 ELSE b[1]) + carry
         IN  <<x % Limb>> \o BigAdd(IF a = <<>> THEN a ELSE Tail(a),
                                     IF b = <<>> THEN b ELSE Tail(b), x \div Limb)

RECURSIVE BigSubLimbs(_, _, _)
BigSubLimbs(a, b, borrow) ==
    IF a = <<>> THEN <<>>
    ELSE LET x == a[1] - (IF b = <<>> THEN 0 ELSE b[1]) - borrow
         IN  <<IF x < 0 THEN x + Limb ELSE x>>
                 \o BigSubLimbs(Tail(a), IF b = <<>> THEN b ELSE Tail(b),
                                IF x < 0 THEN 1 ELSE 0)

\* a - b for a >= b
BigSub(a, b) == BigTrim(BigSubLimbs(a, b, 0))

RECURSIVE BigLess(_, _)
\* a < b
BigLess(a, b) ==
    IF Len(a) # Len(b) THEN Len(a) < Len(b)
    ELSE IF a = <<>> THEN FALSE
    ELSE IF a[Len(a)] # b[Len(b)] THEN a[Len(a)] < b[Len(b)]
    ELSE BigLess(SubSeq(a, 1, Len(a) - 1), SubSeq(b, 1, Len(b) - 1))

RECURSIVE BigMulLimb(_, _, _)
\* a * d + carry for one limb d
BigMulLimb(a, d, carry) ==
    IF a = <<>> THEN (IF carry = 0 THEN <<>> ELSE <<carry>>)
    ELSE LET x == a[1] * d + carry
         IN  <<x % Limb>> \o BigMulLimb(Tail(a), d, x \div Limb)

RECURSIVE BigMul(_, _)
BigMul(a, b) ==
    IF a = <<>> \/ b = <<>> THEN <<>>
    ELSE LET rest == BigMul(a, Tail(b))
         IN  BigAdd(BigMulLimb(a, b[1], 0),
                    IF rest = <<>> THEN rest ELSE <<0>> \o rest, 0)

RECURSIVE BitLen(_)
BitLen(k) == IF k = 0 THEN 0 ELSE 1 + BitLen(k \div 2)

BigBitLen(a) == IF a = <<>> THEN 0 ELSE 15 * (Len(a) - 1) + BitLen(a[Len(a)])

\* Bit i of a, bit 0 the lowest.
BigBit(a, i) ==
    IF (i \div 15) + 1 > Len(a) THEN 0
    ELSE (a[(i \div 15) + 1] \div 2^(i % 15)) % 2

\* a mod 2^k = 0
BigLowZero(a, k) ==
    /\ \A i \in 1..Len(a) : i <= k \div 15 => a[i] = 0
    /\ (k \div 15) < Len(a) => a[(k \div 15) + 1] % 2^(k % 15) = 0

\* a \div 2^k
BigShrBits(d, s) ==
    BigTrim([i \in 1..Len(d) |->
                (d[i] \div 2^s)
                    + (IF i < Len(d) THEN (d[i + 1] % 2^s) * 2^(15 - s) ELSE 0)])

BigShr(a, k) == BigShrBits(SubSeq(a, (k \div 15) + 1, Len(a)), k % 15)

\* a * 2^k
BigShl(a, k) ==
    IF a = <<>> THEN a
    ELSE [i \in 1..(k \div 15) |-> 0] \o BigMulLimb(a, 2^(k % 15), 0)

\* The double nearest to m * 2^e: m rounded to 53 bits, ties to even.
RoundUp(m, k, q) ==
    BigBit(m, k - 1) = 1 /\ (~BigLowZero(m, k - 1) \/ q[1] % 2 = 1)

RoundTo(m, e, k, q) ==
    [m |-> IF RoundUp(m, k, q) THEN BigAdd(q, <<1>>, 0) ELSE q, e |-> e + k]

RoundBits(m, e, k) ==
    IF k <= 0 THEN [m |-> m, e |-> e] ELSE RoundTo(m, e, k, BigShr(m, k))

RoundDouble(m, e) == RoundBits(m, e, BigBitLen(m) - 53)

\* The double 0.20 is 0x1999999999999A * 2^-55.
Fifth == [m |-> <<6554, 13107, 26214, 204>>, e |-> -55]

\* 1.0 - t for a double t >= 0 with t.e <= 0, as a signed double.
Difference(a, b, e) ==
    [neg |-> BigLess(a, b),
     d   |-> RoundDouble(IF BigLess(a, b) THEN BigSub(b, a) ELSE BigSub(a, b), e)]

OneMinus(t) == Difference(BigShl(<<1>>, -t.e), t.m, t.e)

\* 0.20 * boost + 1.0 for boost = -n <= 0: the product is rounded, then the sum.
negative_boost_factor(n) ==
    OneMinus(RoundDouble(BigMul(Fifth.m, BigOf(n)), Fifth.e))

\* math.ceil of the double sign * p.m * 2^p.e
CeilDouble(neg, p) ==
    IF p.e >= 0 THEN (IF neg THEN -1 ELSE 1) * BigToInt(BigShl(p.m, p.e))
    ELSE IF neg THEN -BigToInt(BigShr(p.m, -p.e))
    ELSE BigToInt(BigShr(p.m, -p.e)) + (IF BigLowZero(p.m, -p.e) THEN 0 ELSE 1)

\* int(math.ceil(v * factor)) for an integral v and a signed double factor
ceil_product(v, factor) ==
    CeilDouble((v < 0) # factor.neg,
               RoundDouble(BigMul(factor.d.m, BigOf(IF v < 0 THEN -v ELSE v)),
                           factor.d.e))

\* int(math.ceil(v * boost_factor)) for the boost factor written f20 / 20.
\* A factor above 1 (0.25 * boost + 1.0) is a double without rounding and so
\* is its product with v; a factor 0.20 * boost + 1.0 is rounded twice and
\* the product once more.
boosted(v, f20) ==
    IF f20 <= 20 /\ (20 - f20) % 4 = 0
    THEN ceil_product(v, negative_boost_factor((20 - f20) \div 4))
    ELSE CeilDiv(v * f20, 20)

\* Variant of boosted_value with the boosted minimum and maximum exchanged.
boosted_value_exchanged(dice, f20, mode) ==
    IF mode = "min" THEN boosted(dice.max, f20)
    ELSE IF mode = "max" THEN boosted(dice.min, f20)
    ELSE TruncDiv(boosted(dice.min, f20) + boosted(dice.max, f20), 2)

\* The three statmodes of a dice bag under boost factor f20 / 20.
boosted_value(dice, f20, mode) ==
    IF mode = "min" THEN boosted(dice.min, f20)
    ELSE IF mode = "max" THEN boosted(dice.max, f20)
    ELSE TruncDiv(boosted(dice.min, f20) + boosted(dice.max, f20), 2)

\* The statmode of the dice bag under the boost factor, if there is one.
statmode_value(boost_factor, dice, mode) ==
    IF IsErr(boost_factor) THEN boost_factor
    ELSE IF ~dice.ok THEN Raise("ValueError")
    ELSE IF IsNone(boost_factor) THEN PyInt(plain_value(dice, mode))
    ELSE PyInt(boosted_value(dice, boost_factor.n, mode))

\* The statmode of the raw value val_str of the attribute.
statmode_of(e, attr, mode, val_str) ==
    IF IsErr(val_str) THEN val_str
    ELSE IF IsNone(val_str) THEN PyNone
    ELSE statmode_value(attribute_boost_factor(e, attr), DiceBag(val_str.s), mode)

attribute_helper_min_max_or_avg(e, attr, mode) ==
    statmode_of(e, attr, mode, attribute_helper(e, attr))

\* Variant of modifier that truncates toward zero.
modifier_trunc(val) == TruncDiv(val - 16, 2)

\* val = (val - 16) // 2
modifier(val) == FloorDiv(val - 16, 2)

\* The modifier of a resolved value; None stays None.
modifier_of(val) ==
    IF IsErr(val) THEN val
    ELSE IF IsNone(val) THEN PyNone
    ELSE PyInt(modifier(val.n))

attribute_helper_mod(e, attr, statmode) ==
    modifier_of(attribute_helper_min_max_or_avg(e, attr, statmode))

-----------------------------------------------------------------------------
(* Bounds of the explored entities *)

\* Boost tiers run over -MinBoostMag .. MaxBoost.
MaxBoost == 3

MinBoostMag == 7

\* Raw attribute dice: "N" and "N-M" with 14 <= N <= StatHi, M - N <= MaxSpread.
StatHi == 15

MaxSpread == 2

-----------------------------------------------------------------------------
(* Input sets *)

Modes == {"min", "max", "avg"}

RangeText(lo, hi) == IntText(lo) \o <<"-">> \o IntText(hi)

DiceTexts ==
    {IntText(k) : k \in 14..StatHi}
        \cup {RangeText(k, k + w) : k \in 14..StatHi, w \in 1..MaxSpread}

T_2d6p1 == <<"2", "d", "6", "+", "1">>

T_3d4m1 == <<"3", "d", "4", "-", "1">>

\* A dice expression whose values are all negative: -5 .. -2.
T_1d4m6 == <<"1", "d", "4", "-", "6">>

\* Level-scaled specifications: one tier, or two tiers around level 15.
SValueSpecs ==
    {<<[from |-> 1, dice |-> d]>> : d \in DiceTexts}
        \cup {<<[from |-> 1, dice |-> IntText(16)], [from |-> 15, dice |-> T_2d6p1]>>,
              <<[from |-> 15, dice |-> T_3d4m1], [from |-> 30, dice |-> IntText(18)]>>,
              <<[from |-> 1, dice |-> T_1d4m6]>>}

BoostTexts == {PyStr(IntText(b)) : b \in (-MinBoostMag)..MaxBoost}

T_18_29 == RangeText(18, 29)

\* The level is always set; it is rarely a range such as "18-29".
WithLevel(e, ranged) ==
    [e EXCEPT !.stat_Level_Value  = PyStr(IntText(10)),
              !.stat_Level_sValue = IF ranged THEN PyStr(T_18_29) ELSE PyNone]

ActiveBase ==
    [Blank EXCEPT !.part_Physics_Takeable = PyStr(T_false),
                  !.part_Combat = TRUE,
                  !.part_Brain  = TRUE]

\* Active characters with one attribute populated.
ActiveEntities ==
    {[WithLevel(ActiveBase, ranged) EXCEPT
          !.property_Role_Value = r,
          !.stat = [a \in AttrNames |->
                       IF a = pa THEN [sValue |-> sv, Value |-> v, Boost |-> b]
                       ELSE NoStat]] :
        ranged \in BOOLEAN,
        r  \in {PyNone, PyStr(T_Minion), PyStr(T_Hero)},
        pa \in {"Strength", "Hitpoints"},
        sv \in {PyNone} \cup {PyStr(sp) : sp \in SValueSpecs},
        v  \in {PyNone, PyStr(IntText(17))},
        b  \in {PyNone} \cup BoostTexts}

\* Entities of every classification, with the Strength fields set or unset.
ClassifiedEntities ==
    {[WithLevel(Blank, FALSE) EXCEPT
          !.part_Physics_Takeable = tk,
          !.part_Gas = g,
          !.part_Combat = c,
          !.part_Brain = br,
          !.inherits_Armor = ar,
          !.part_Armor = [a \in AttrNames |-> IF a = "Strength" THEN pa ELSE PyNone],
          !.stat = [a \in AttrNames |->
                       IF a = "Strength" THEN [sValue |-> sv, Value |-> v, Boost |-> b]
                       ELSE NoStat]] :
        tk \in {PyNone, PyStr(T_false), PyStr(T_False), PyStr(T_true)},
        g  \in BOOLEAN, c \in BOOLEAN, br \in BOOLEAN, ar \in BOOLEAN,
        pa \in {PyNone, PyStr(IntText(2))},
        sv \in {PyNone, PyStr(<<[from |-> 1, dice |-> RangeText(14, 18)]>>)},
        v  \in {PyNone, PyStr(IntText(17))},
        b  \in {PyNone, PyStr(IntText(2))}}

-----------------------------------------------------------------------------
(* Evaluation of the attribute helpers *)

Q(op, attr, mode) == [op |-> op, attr |-> attr, mode |-> mode]

NoQuery == Q("none", "", "")

QueryAttrs == {"Strength", "Hitpoints"}

Init ==
    /\ ent \in ActiveEntities \cup ClassifiedEntities
    /\ query = NoQuery
    /\ result = PyNone

EvalAttribute(attr) ==
    /\ query = NoQuery
    /\ query' = Q("attribute_helper", attr, "")
    /\ result' = attribute_helper(ent, attr)
    /\ UNCHANGED ent

EvalBoostFactor(attr) ==
    /\ query = NoQuery
    /\ query' = Q("attribute_boost_factor", attr, "")
    /\ result' = attribute_boost_factor(ent, attr)
    /\ UNCHANGED ent

EvalMinMaxAvg(attr, mode) ==
    /\ query = NoQuery
    /\ query' = Q("attribute_helper_min_max_or_avg", attr, mode)
    /\ result' = attribute_helper_min_max_or_avg(ent, attr, mode)
    /\ UNCHANGED ent

EvalMod(attr, mode) ==
    /\ query = NoQuery
    /\ query' = Q("attribute_helper_mod", attr, mode)
    /\ result' = attribute_helper_mod(ent, attr, mode)
    /\ UNCHANGED ent

\* One property is evaluated on the chosen entity.
Next ==
    \/ \E attr \in QueryAttrs : EvalAttribute(attr)
    \/ \E attr \in QueryAttrs : EvalBoostFactor(attr)
    \/ \E attr \in QueryAttrs, mode \in Modes : EvalMinMaxAvg(attr, mode)
    \/ \E attr \in QueryAttrs, mode \in Modes : EvalMod(attr, mode)

Spec == Init /\ [][Next]_vars

-----------------------------------------------------------------------------
(* Properties of the attribute pipeline *)

\* c = ceil(x / d), d > 0
IsCeilOf(c, x, d) == d * (c - 1) < x /\ x <= d * c

\* a = floor(s / 2)
IsFloorHalf(a, s) == 2 * a <= s /\ s < 2 * a + 2

\* a = s / 2 truncated toward zero
IsTruncHalf(a, s) ==
    IF s >= 0 THEN 2 * a <= s /\ s < 2 * a + 2
    ELSE 2 * a - 2 < s /\ s <= 2 * a

\* The raw value of the queried attribute evaluated as dice.
RawDice == DiceBag(attribute_helper(ent, query.attr).s)

HasRawDice ==
    /\ IsStr(attribute_helper(ent, query.attr))
    /\ RawDice.ok

\* A boost factor applies to the queried attribute.
FactorApplies == attribute_boost_factor(ent, query.attr).tag = "float"

Factor20 == attribute_boost_factor(ent, query.attr).n

BoostedMin == CeilDiv(RawDice.min * Factor20, 20)

BoostedMax == CeilDiv(RawDice.max * Factor20, 20)

BoostedQuery ==
    /\ query.op = "attribute_helper_min_max_or_avg"
    /\ HasRawDice
    /\ FactorApplies

\* C1: under a boost factor min = ceil(rawMin * factor),
\* max = ceil(rawMax * factor) and avg = floor((min + max) / 2), also when the
\* boosted sum is odd or negative.
C1_BoostedAverageFloor ==
    BoostedQuery =>
        /\ IsInt(result)
        /\ query.mode = "min" => IsCeilOf(result.n, RawDice.min * Factor20, 20)
        /\ query.mode = "max" => IsCeilOf(result.n, RawDice.max * Factor20, 20)
        /\ query.mode = "avg" => IsFloorHalf(result.n, BoostedMin + BoostedMax)

\* C2: the modifier of a resolved value v is floor((v - 16) / 2), rounding
\* toward negative infinity (16 -> 0, 15 -> -1, 18 -> 1, 0 -> -8), in every
\* statmode; an absent attribute has an absent modifier.
C2_ModifierFloors ==
    /\ modifier(16) = 0 /\ modifier(15) = -1 /\ modifier(18) = 1 /\ modifier(0) = -8
    /\ query.op = "attribute_helper_mod" =>
          LET v == attribute_helper_min_max_or_avg(ent, query.attr, query.mode)
          IN  /\ IsInt(v) => /\ IsInt(result)
                             /\ 2 * result.n <= v.n - 16
                             /\ v.n - 16 < 2 * result.n + 2
              /\ IsNone(v) => IsNone(result)

\* The modifier of an odd value below 16 has been computed.
C2_Witness ==
    /\ query.op = "attribute_helper_mod"
    /\ attribute_helper_min_max_or_avg(ent, query.attr, query.mode) = PyInt(15)
    /\ result = PyInt(-1)

\* The Boost tier of the queried attribute after the minion adjustment.
EffectiveTier ==
    minion_boost(ent, query.attr, py_int(ent.stat[query.attr].Boost).n)

FactorQuery ==
    /\ query.op = "attribute_boost_factor"
    /\ result.tag = "float"

\* C3 as stated: with effective tier t the factor is 0.25 * t + 1.0 for t > 0
\* and 0.20 * |t| + 1.0 for t < 0.
C3_FactorOfMagnitude ==
    FactorQuery =>
        /\ EffectiveTier > 0 => result.n = 5 * EffectiveTier + 20
        /\ EffectiveTier < 0 => result.n = 4 * (-EffectiveTier) + 20

\* C3 amended: with effective tier t the factor is 0.25 * t + 1.0 for t > 0
\* and 0.20 * t + 1.0 for t < 0, the tier keeping its sign, so that a negative
\* tier gives a factor below 1.0.
C3_FactorOfSignedTier ==
    FactorQuery =>
        /\ EffectiveTier > 0 => result.n = 5 * EffectiveTier + 20
        /\ EffectiveTier < 0 => result.n = 4 * EffectiveTier + 20 /\ result.n < 20

\* A factor for a negative effective tier has been computed.
C3_Witness ==
    /\ FactorQuery
    /\ EffectiveTier < 0

\* C4: a Minion's Boost tier is lowered by exactly 1 before the formula is
\* applied for an attribute of STAT_NAMES; the tier of any other entity, and
\* of any attribute outside STAT_NAMES, is used unchanged.
C4_MinionTierLowered ==
    FactorQuery =>
        LET tier == py_int(ent.stat[query.attr].Boost).n
        IN  IF ent.property_Role_Value = PyStr(T_Minion) /\ query.attr \in STAT_NAMES
            THEN result.n = boost_formula(tier - 1)
            ELSE result.n = boost_formula(tier)

\* A Minion's factor for a core attribute has been computed from tier 2.
C4_Witness ==
    /\ FactorQuery
    /\ ent.property_Role_Value = PyStr(T_Minion)
    /\ query.attr \in STAT_NAMES
    /\ ent.stat[query.attr].Boost = PyStr(IntText(2))
    /\ result = PyFloat20(25)

\* The raw value comes from the level-scaled field of an active character
\* that has a Boost tier.
BoostPrecondition ==
    /\ active_or_inactive_character(ent) = ACTIVE_CHAR
    /\ ~IsNone(ent.stat[query.attr].sValue)
    /\ ~IsNone(ent.stat[query.attr].Boost)

\* C5: a boost factor exists only under BoostPrecondition; in every other case
\* there is no factor and min, max and avg are the raw dice minimum, maximum
\* and integer average.
C5_FactorOnlyForScaledValue ==
    /\ query.op = "attribute_boost_factor" =>
          /\ result.tag = "float" => BoostPrecondition
          /\ ~BoostPrecondition => IsNone(result)
    /\ (query.op = "attribute_helper_min_max_or_avg"
            /\ HasRawDice /\ ~BoostPrecondition) =>
          /\ IsInt(result)
          /\ query.mode = "min" => result.n = RawDice.min
          /\ query.mode = "max" => result.n = RawDice.max
          /\ query.mode = "avg" => IsTruncHalf(result.n, RawDice.avg2)

\* An active character with a Boost tier but only a flat Value resolved its
\* average to the flat value.
C5_Witness ==
    /\ query.op = "attribute_helper_min_max_or_avg"
    /\ query.mode = "avg"
    /\ active_or_inactive_character(ent) = ACTIVE_CHAR
    /\ IsNone(ent.stat[query.attr].sValue)
    /\ ~IsNone(ent.stat[query.attr].Boost)
    /\ result = PyInt(17)

\* The raw value C6 describes.
ExpectedRaw ==
    IF active_or_inactive_character(ent) = ACTIVE_CHAR
    THEN IF ~IsNone(ent.stat[query.attr].sValue)
         THEN PyStr(sValue(ent.stat[query.attr].sValue.s, level_of(lv(ent)).n))
         ELSE ent.stat[query.attr].Value
    ELSE IF ent.inherits_Armor THEN ent.part_Armor[query.attr]
    ELSE PyNone

\* C6: the raw value is, for an active character, the sValue resolved at the
\* entity's level if set and otherwise the flat Value; for any other entity
\* inheriting from Armor the Armor field; otherwise absent.  An absent raw
\* value makes min, max, avg and the modifier absent.
C6_RawValueSelection ==
    /\ query.op = "attribute_helper" => result = ExpectedRaw
    /\ (query.op \in {"attribute_helper_min_max_or_avg", "attribute_helper_mod"}
            /\ IsNone(ExpectedRaw)) => IsNone(result)

\* An active character with both fields set resolved to the level-scaled one.
C6_Witness ==
    /\ query.op = "attribute_helper"
    /\ active_or_inactive_character(ent) = ACTIVE_CHAR
    /\ ~IsNone(ent.stat[query.attr].sValue)
    /\ ~IsNone(ent.stat[query.attr].Value)
    /\ IsStr(result)
    /\ result # ent.stat[query.attr].Value

-----------------------------------------------------------------------------
(* The object index: the items an inventory entry can name *)

T_Plate == <<"P", "l", "a", "t", "e">>

T_Helm == <<"H", "e", "l", "m">>

T_Buckler == <<"B", "u", "c", "k", "l", "e", "r">>

T_Dagger == <<"D", "a", "g", "g", "e", "r">>

T_Junk == <<"*", "J", "u", "n", "k", " ", "1">>

T_Hooks == <<"H", "o", "o", "k", "s">>

T_Feet == <<"F", "e", "e", "t">>

Armor(name, slot, avText, dvText) ==
    [Blank EXCEPT !.name = name,
                  !.inherits_Armor = TRUE,
                  !.part_Armor_WornOn = PyStr(slot),
                  !.part_Armor_AV = PyStr(avText),
                  !.part_Armor_DV = PyStr(dvText)]

Shield(name, slot, avText, dvText) ==
    [Blank EXCEPT !.name = name,
                  !.part_Shield_WornOn = PyStr(slot),
                  !.part_Shield_AV = PyStr(avText),
                  !.part_Shield_DV = PyStr(dvText)]

ItemNames == {T_Plate, T_Helm, T_Buckler, T_Dagger}

\* self.qindex: entity name -> entity
qindex ==
    [name \in ItemNames |->
        CASE name = T_Plate   -> Armor(T_Plate, T_Body, IntText(3), IntText(-1))
          [] name = T_Helm    -> Armor(T_Helm, T_Head, IntText(1), IntText(0))
          [] name = T_Buckler -> Shield(T_Buckler, T_Arm, IntText(2), IntText(-2))
          [] name = T_Dagger  -> [Blank EXCEPT !.name = T_Dagger]]

\* name[0] in '*#@'
\* An empty name has no first character: name[0] raises IndexError.
is_placeholder(name) == name # <<>> /\ name[1] \in {"*", "#", "@"}

-----------------------------------------------------------------------------
(* wornon, av and dv *)

wornon(e) ==
    IF e.name = T_Hooks THEN PyStr(T_Feet)
    ELSE IF Truthy(e.part_Armor_WornOn) THEN e.part_Armor_WornOn
    ELSE IF Truthy(e.part_Shield_WornOn) THEN e.part_Shield_WornOn
    ELSE PyNone

\* Variant of counts_item that skips every item worn on 'Body'.
counts_item_never_body(value, applied_body, item) ==
    Truthy(value) /\ wornon(item) # PyStr(T_Body)

\* item.av and (not applied_body_av or item.wornon != 'Body'), and the same for dv
counts_item(value, applied_body, item) ==
    Truthy(value) /\ (~applied_body \/ wornon(item) # PyStr(T_Body))

\* info['Level'] of a mutation: a KeyError when the mutation has no Level.
mutation_level(m) == IF IsNone(m.Level) THEN Raise("KeyError") ELSE m.Level

\* The running state of a loop, unless an iteration has raised an exception.
Running(acc) == "tag" \notin DOMAIN acc

\* One pass of the mutation loop of av over acc = [av, applied_body_av]: the
\* next acc, or the exception int(info['Level']) raises.
av_mutation(m, acc) ==
    LET level == py_int(mutation_level(m))
    IN  CASE m.name = "Carapace" ->
                 IF IsErr(level) THEN level
                 ELSE [av |-> acc.av + FloorDiv(level.n, 2) + 3, applied_body_av |-> TRUE]
          [] m.name = "Quills" ->
                 IF IsErr(level) THEN level
                 ELSE [av |-> acc.av + FloorDiv(level.n, 3) + 2, applied_body_av |-> TRUE]
          [] m.name = "Horns" ->
                 IF IsErr(level) THEN level
                 ELSE [acc EXCEPT !.av = acc.av + FloorDiv(level.n - 1, 3) + 1]
          [] m.name = "MultiHorns" ->
                 IF IsErr(level) THEN level
                 ELSE [acc EXCEPT !.av = acc.av + FloorDiv(level.n + 1, 4)]
          [] m.name = "SlogGlands" ->
                 [acc EXCEPT !.av = acc.av + 1]
          [] OTHER -> acc

RECURSIVE av_mutations(_, _)
av_mutations(muts, acc) ==
    IF muts = <<>> \/ ~Running(acc) THEN acc
    ELSE av_mutations(Tail(muts), av_mutation(Head(muts), acc))

RECURSIVE av(_)
RECURSIVE av_inventory(_, _, _)

\* The inventory loop of av: names in order, the running av, or an exception.
av_inventory(names, applied_body_av, acc) ==
    IF names = <<>> THEN PyInt(acc)
    ELSE IF Head(names) = <<>> THEN Raise("IndexError")
    ELSE IF is_placeholder(Head(names))
         THEN av_inventory(Tail(names), applied_body_av, acc)
    ELSE IF Head(names) \notin DOMAIN qindex THEN Raise("KeyError")
    ELSE LET item    == qindex[Head(names)]
             item_av == av(item)
         IN  IF IsErr(item_av) THEN item_av
             ELSE IF counts_item(item_av, applied_body_av, item)
                  THEN av_inventory(Tail(names), applied_body_av, acc + item_av.n)
             ELSE av_inventory(Tail(names), applied_body_av, acc)

av(e) ==
    LET armor_av  == IF Truthy(e.part_Armor_AV) THEN e.part_Armor_AV ELSE PyNone
        shield_av == IF Truthy(e.part_Shield_AV) THEN e.part_Shield_AV ELSE armor_av
    IN  IF active_or_inactive_character(e) > 0
        THEN LET base == py_int(e.stat_AV_Value)
             IN  IF IsErr(base) THEN base
                 ELSE LET m == av_mutations(e.mutation,
                                   [av |-> base.n, applied_body_av |-> FALSE])
                      IN  IF ~Running(m) THEN m
                          ELSE int_or_none(
                                   av_inventory(e.inventoryobject, m.applied_body_av,
                                                m.av))
        ELSE int_or_none(shield_av)

RECURSIVE dv(_)
RECURSIVE dv_inventory(_, _, _)
RECURSIVE dv_item(_, _, _, _, _)

\* The inventory loop of dv: names in order, the running dv, or an exception.
dv_inventory(names, applied_body_dv, acc) ==
    IF names = <<>> THEN PyInt(acc)
    ELSE IF Head(names) = <<>> THEN Raise("IndexError")
    ELSE IF is_placeholder(Head(names))
         THEN dv_inventory(Tail(names), applied_body_dv, acc)
    ELSE IF Head(names) \notin DOMAIN qindex THEN Raise("KeyError")
    ELSE dv_item(names, applied_body_dv, acc, qindex[Head(names)],
                 dv(qindex[Head(names)]))

\* One turn of the inventory loop of dv for an item of the index.
dv_item(names, applied_body_dv, acc, item, item_dv) ==
    IF IsErr(item_dv) THEN item_dv
    ELSE IF counts_item(item_dv, applied_body_dv, item)
         THEN dv_inventory(Tail(names), applied_body_dv, acc + item_dv.n)
    ELSE dv_inventory(Tail(names), applied_body_dv, acc)

\* Variant of dv_skills with the two skill bonuses exchanged.
dv_skills_exchanged(e) ==
    (IF e.skill_Acrobatics_Dodge THEN 1 ELSE 0)
        + (IF e.skill_Acrobatics_Tumble THEN 2 ELSE 0)

\* +2 for Acrobatics_Dodge ('Spry'), +1 for Acrobatics_Tumble
dv_skills(e) ==
    (IF e.skill_Acrobatics_Dodge THEN 2 ELSE 0)
        + (IF e.skill_Acrobatics_Tumble THEN 1 ELSE 0)

has_carapace(e) == \E i \in 1..Len(e.mutation) : e.mutation[i].name = "Carapace"

\* The dv of a creature from a base: stat field, skills, Agility modifier,
\* Carapace and worn equipment.
\* The pipeline once the DV stat field and the Agility modifier are read.
dv_sum(e, base, stat, agi) ==
    IF IsErr(stat) THEN stat
    ELSE IF IsErr(agi) THEN agi
    ELSE IF IsNone(agi) THEN Raise("TypeError")
    ELSE dv_inventory(e.inventoryobject, has_carapace(e),
                      base + stat.n + dv_skills(e) + agi.n
                          + (IF has_carapace(e) THEN -2 ELSE 0))

dv_pipeline(e, base) ==
    dv_sum(e, base,
           IF IsNone(e.stat_DV_Value) THEN PyInt(0) ELSE py_int(e.stat_DV_Value),
           attribute_helper_mod(e, "Agility", "avg"))

\* self.is_specified('part_Brain_Mobile') and part_Brain_Mobile is 'false' or 'False'
immobile(e) ==
    /\ is_specified(e, "part_Brain_Mobile")
    /\ \/ e.part_Brain_Mobile = PyStr(T_false)
       \/ e.part_Brain_Mobile = PyStr(T_False)

\* Variant of dv_active in which immobility only replaces the base.
dv_active_base_only(e) ==
    dv_pipeline(e, IF immobile(e) THEN -10 ELSE 6)

\* The dv of an active character.
dv_active(e) ==
    IF immobile(e) THEN PyInt(-10) ELSE dv_pipeline(e, 6)

\* dv with the character branches tested before the Shield DV field.
dv_character_first(e) ==
    LET armor_dv == IF IsNone(e.part_Armor_DV) THEN PyNone ELSE py_int(e.part_Armor_DV)
        char_type == active_or_inactive_character(e)
    IN  IF IsErr(armor_dv) THEN armor_dv
        ELSE IF char_type = INACTIVE_CHAR THEN PyInt(-10)
        ELSE IF char_type = ACTIVE_CHAR THEN int_or_none(dv_active(e))
        ELSE IF ~IsNone(e.part_Shield_DV) THEN int_or_none(py_int(e.part_Shield_DV))
        ELSE int_or_none(armor_dv)

\* dv once the Armor DV field is read and the entity is classified.
dv_branches(e, armor_dv, char_type) ==
    IF IsErr(armor_dv) THEN armor_dv
    ELSE IF ~IsNone(e.part_Shield_DV) THEN int_or_none(py_int(e.part_Shield_DV))
    ELSE IF char_type = INACTIVE_CHAR THEN PyInt(-10)
    ELSE IF char_type = ACTIVE_CHAR THEN int_or_none(dv_active(e))
    ELSE int_or_none(armor_dv)

dv(e) ==
    dv_branches(e, IF IsNone(e.part_Armor_DV) THEN PyNone ELSE py_int(e.part_Armor_DV),
                active_or_inactive_character(e))

-----------------------------------------------------------------------------
(* Entities whose av is evaluated *)

MaxInventory == 2

MaxMutations == 2

\* Mutation levels are 1 and MutationLevelHi.
MutationLevelHi == 6

RECURSIVE DistinctSeqs(_, _)
\* The sequences of at most n distinct elements of S, in every order.
DistinctSeqs(S, n) ==
    IF n = 0 THEN {<<>>}
    ELSE LET shorter == DistinctSeqs(S, n - 1)
         IN  shorter \cup UNION {{Append(q, x) : x \in S \ {q[i] : i \in 1..Len(q)}} :
                                      q \in {r \in shorter : Len(r) = n - 1}}

IsInjective(q) == \A i, j \in 1..Len(q) : q[i] = q[j] => i = j

Inventories ==
    {q \in DistinctSeqs(ItemNames \cup {T_Junk}, MaxInventory) : IsInjective(q)}

AvMutationNames == {"Carapace", "Quills", "Horns", "MultiHorns", "SlogGlands"}

MutationLevels == {PyStr(IntText(1)), PyStr(IntText(MutationLevelHi))}

\* self.mutation: an ordered mapping, each name at most once.
MutationsOf(names) ==
    {q \in DistinctSeqs([name : names, Level : MutationLevels], MaxMutations) :
        \A i, j \in 1..Len(q) : q[i].name = q[j].name => i = j}

Character(active) ==
    [WithLevel(Blank, FALSE) EXCEPT !.part_Physics_Takeable = PyStr(T_false),
                                    !.part_Combat = active,
                                    !.part_Brain  = active]

AvCharacters ==
    {[Character(active) EXCEPT !.stat_AV_Value = base,
                               !.mutation = muts,
                               !.inventoryobject = inv] :
        active \in BOOLEAN,
        base \in {PyNone, PyStr(IntText(2))},
        muts \in MutationsOf(AvMutationNames),
        inv  \in Inventories}

InitAv ==
    /\ ent \in AvCharacters \cup {qindex[name] : name \in ItemNames}
    /\ query = NoQuery
    /\ result = PyNone

EvalAv ==
    /\ query = NoQuery
    /\ query' = Q("av", "", "")
    /\ result' = av(ent)
    /\ UNCHANGED ent

NextAv == EvalAv

SpecAv == InitAv /\ [][NextAv]_vars

-----------------------------------------------------------------------------
(* Properties of av *)

SwapFirst(q) ==
    IF Len(q) < 2 THEN q ELSE <<q[2], q[1]>> \o SubSeq(q, 3, Len(q))

SwapLast(q) ==
    IF Len(q) < 2 THEN q
    ELSE SubSeq(q, 1, Len(q) - 2) \o <<q[Len(q)], q[Len(q) - 1]>>

\* The entity with two neighbouring mutations or inventory entries exchanged.
Reordered ==
    {[ent EXCEPT !.inventoryobject = SwapFirst(@)],
     [ent EXCEPT !.inventoryobject = SwapLast(@)],
     [ent EXCEPT !.mutation = SwapFirst(@)],
     [ent EXCEPT !.mutation = SwapLast(@)]}

HasMutation(names) == \E i \in 1..Len(ent.mutation) : ent.mutation[i].name \in names

HasItem(name) == \E i \in 1..Len(ent.inventoryobject) : ent.inventoryobject[i] = name

\* What an inventory entry adds to the av of ent according to C7.
AvOfEntry(name) ==
    IF is_placeholder(name) THEN 0
    ELSE LET item == qindex[name]
         IN  IF ~IsInt(av(item)) \/ av(item).n = 0 THEN 0
             ELSE IF HasMutation({"Carapace", "Quills"}) /\ wornon(item) = PyStr(T_Body)
                  THEN 0
             ELSE av(item).n

RECURSIVE AvOfEntries(_)
AvOfEntries(names) ==
    IF names = <<>> THEN 0 ELSE AvOfEntry(Head(names)) + AvOfEntries(Tail(names))

AvQuery == query.op = "av" /\ active_or_inactive_character(ent) > 0

\* C7: in the av of a character an item with non-zero av is left out exactly
\* when Carapace or Quills applied and the item is worn on 'Body'; any other
\* item is added; the outcome does not depend on the order of the mutations
\* or of the inventory entries.
C7_BodySlotExclusive ==
    AvQuery =>
        /\ \A other \in Reordered : av(other) = result
        /\ IsInt(result) =>
              result.n - av([ent EXCEPT !.inventoryobject = <<>>]).n
                  = AvOfEntries(ent.inventoryobject)

\* A character with a body-slot mutation wears body armour and a helmet.
C7_Witness ==
    /\ AvQuery
    /\ IsInt(result)
    /\ HasMutation({"Carapace", "Quills"})
    /\ HasItem(T_Plate)
    /\ HasItem(T_Helm)
    /\ result.n - av([ent EXCEPT !.inventoryobject = <<>>]).n = av(qindex[T_Helm]).n

\* C8: the av of a character whose AV stat field is unset is absent: not zero,
\* and not an error.
C8_AbsentWithoutBase ==
    (AvQuery /\ IsNone(ent.stat_AV_Value)) => IsNone(result)

-----------------------------------------------------------------------------
(* Entities whose dv is evaluated *)

Carapace1 == [name |-> "Carapace", Level |-> PyStr(IntText(1))]

Horns1 == [name |-> "Horns", Level |-> PyStr(IntText(1))]

\* part_Brain_Mobile: unset, set on the entity itself, or inherited.
MobileFields ==
    {[value |-> PyNone, own |-> FALSE],
     [value |-> PyStr(T_false), own |-> TRUE],
     [value |-> PyStr(T_False), own |-> TRUE],
     [value |-> PyStr(T_true), own |-> TRUE],
     [value |-> PyStr(T_false), own |-> FALSE]}

AgilityStats ==
    {NoStat,
     [sValue |-> PyNone, Value |-> PyStr(IntText(15)), Boost |-> PyNone],
     [sValue |-> PyStr(<<[from |-> 1, dice |-> RangeText(16, 19)]>>),
      Value |-> PyNone, Boost |-> PyStr(IntText(1))]}

DvCharacters ==
    {[Character(TRUE) EXCEPT
          !.stat_DV_Value = base,
          !.skill_Acrobatics_Dodge = dodge,
          !.skill_Acrobatics_Tumble = tumble,
          !.stat = [a \in AttrNames |-> IF a = "Agility" THEN agi ELSE NoStat],
          !.part_Brain_Mobile = mob.value,
          !.specified = IF mob.own THEN {"part_Brain_Mobile"} ELSE {},
          !.mutation = muts,
          !.part_Shield_DV = shield,
          !.part_Armor_DV = armor,
          !.inventoryobject = inv] :
        base \in {PyNone, PyStr(IntText(3))},
        dodge \in BOOLEAN, tumble \in BOOLEAN,
        agi \in AgilityStats,
        mob \in MobileFields,
        muts \in {<<>>, <<Carapace1>>, <<Horns1>>, <<Horns1, Carapace1>>},
        shield \in {PyNone, PyStr(IntText(1))},
        armor \in {PyNone, PyStr(IntText(2))},
        inv \in Inventories}

\* Entities of every classification with and without the two DV fields.
DvClassified ==
    {[WithLevel(Blank, FALSE) EXCEPT
          !.part_Physics_Takeable = tk,
          !.part_Combat = c,
          !.part_Brain = c,
          !.stat = [a \in AttrNames |->
                       IF a = "Agility"
                       THEN [sValue |-> PyNone, Value |-> PyStr(IntText(15)), Boost |-> PyNone]
                       ELSE NoStat],
          !.part_Shield_DV = shield,
          !.part_Armor_DV = armor] :
        tk \in {PyNone, PyStr(T_false)},
        c \in BOOLEAN,
        shield \in {PyNone, PyStr(IntText(1))},
        armor \in {PyNone, PyStr(IntText(2))}}

InitDv ==
    /\ ent \in DvCharacters \cup DvClassified \cup {qindex[name] : name \in ItemNames}
    /\ query = NoQuery
    /\ result = PyNone

EvalDv ==
    /\ query = NoQuery
    /\ query' = Q("dv", "", "")
    /\ result' = dv(ent)
    /\ UNCHANGED ent

NextDv == EvalDv

SpecDv == InitDv /\ [][NextDv]_vars

-----------------------------------------------------------------------------
(* Properties of dv *)

\* What an inventory entry adds to the dv of ent according to C9.
DvOfEntry(name) ==
    IF is_placeholder(name) THEN 0
    ELSE LET item == qindex[name]
         IN  IF ~IsInt(dv(item)) \/ dv(item).n = 0 THEN 0
             ELSE IF HasMutation({"Carapace"}) /\ wornon(item) = PyStr(T_Body) THEN 0
             ELSE dv(item).n

RECURSIVE DvOfEntries(_)
DvOfEntries(names) ==
    IF names = <<>> THEN 0 ELSE DvOfEntry(Head(names)) + DvOfEntries(Tail(names))

AgilityModifier == attribute_helper_mod(ent, "Agility", "avg")

\* Everything the dv pipeline adds on top of its base.
DvContributions ==
    (IF IsNone(ent.stat_DV_Value) THEN 0 ELSE py_int(ent.stat_DV_Value).n)
        + (IF ent.skill_Acrobatics_Dodge THEN 2 ELSE 0)
        + (IF ent.skill_Acrobatics_Tumble THEN 1 ELSE 0)
        + AgilityModifier.n
        - (IF HasMutation({"Carapace"}) THEN 2 ELSE 0)
        + DvOfEntries(ent.inventoryobject)

FlaggedImmobile ==
    /\ "part_Brain_Mobile" \in ent.specified
    /\ ent.part_Brain_Mobile \in {PyStr(T_false), PyStr(T_False)}

\* dv is evaluated on an active character without a Shield DV field.
DvActiveQuery ==
    /\ query.op = "dv"
    /\ active_or_inactive_character(ent) = ACTIVE_CHAR
    /\ IsNone(ent.part_Shield_DV)

\* ... whose Agility modifier resolves.
DvCharacterQuery == DvActiveQuery /\ IsInt(AgilityModifier)

\* C9: for a mobile active character without a Shield DV field,
\* dv = 6 + DV stat (0 if unset) + 2 for Acrobatics_Dodge + 1 for
\* Acrobatics_Tumble + the average Agility modifier - 2 for Carapace + the dv
\* of every non-placeholder item with non-zero dv, items worn on 'Body' being
\* left out when Carapace applied.
C9_MobileDv ==
    (DvCharacterQuery /\ ~FlaggedImmobile) => result = PyInt(6 + DvContributions)

\* A mobile character with both skills, Carapace, body armour and a shield.
C9_Witness ==
    /\ DvCharacterQuery /\ ~FlaggedImmobile
    /\ ent.skill_Acrobatics_Dodge /\ ent.skill_Acrobatics_Tumble
    /\ ~IsNone(ent.stat_DV_Value)
    /\ HasMutation({"Carapace"})
    /\ HasItem(T_Plate) /\ HasItem(T_Buckler)
    /\ IsInt(result)

\* C10 as stated: for an immobile active character only the base 6 becomes
\* -10; stat field, skills, Agility modifier, mutation and equipment are still
\* added.
C10_ImmobileBaseOnly ==
    (DvCharacterQuery /\ FlaggedImmobile) => result = PyInt(-10 + DvContributions)

\* C10 amended: for an active character flagged immobile and without a Shield
\* DV field dv is exactly -10; nothing is added to it.
C10_ImmobileFlat ==
    (DvActiveQuery /\ FlaggedImmobile) => result = PyInt(-10)

\* An immobile character for which the contributions would not cancel out.
C10_Witness ==
    /\ DvCharacterQuery /\ FlaggedImmobile
    /\ DvContributions # 0
    /\ result = PyInt(-10)

-----------------------------------------------------------------------------
(* Armor and Shield DV fields *)

\* The DV field C11 speaks of: the shield's when both are present.
DvField ==
    IF ~IsNone(ent.part_Shield_DV) THEN ent.part_Shield_DV ELSE ent.part_Armor_DV

\* C11 as stated: whenever an entity has an Armor DV field or a Shield DV
\* field, dv is that field's integer value (the shield's when both are
\* present), for active characters, inactive characters and entities that
\* are not characters alike.
C11_FieldOverridesAlways ==
    (query.op = "dv" /\ ~IsNone(DvField)) => result = py_int(DvField)

\* C11 amended: a Shield DV field is the dv of every entity that has one; an
\* Armor DV field is the dv only of an entity without a Shield DV field that
\* is not a character, and for a character without a Shield DV field the
\* Armor DV field changes nothing.
C11_ShieldOverridesArmorOnItems ==
    query.op = "dv" =>
        /\ ~IsNone(ent.part_Shield_DV) => result = py_int(ent.part_Shield_DV)
        /\ (IsNone(ent.part_Shield_DV) /\ ~IsNone(ent.part_Armor_DV)) =>
               IF active_or_inactive_character(ent) = 0
               THEN result = py_int(ent.part_Armor_DV)
               ELSE result = dv([ent EXCEPT !.part_Armor_DV = PyNone])

\* An inactive character carrying both fields gets the shield's value.
C11_Witness ==
    /\ query.op = "dv"
    /\ active_or_inactive_character(ent) = INACTIVE_CHAR
    /\ ~IsNone(ent.part_Shield_DV) /\ ~IsNone(ent.part_Armor_DV)
    /\ result = py_int(ent.part_Shield_DV)
    /\ result # py_int(ent.part_Armor_DV)

-----------------------------------------------------------------------------
(* Mental armor *)

T_Mechanical == <<"M", "e", "c", "h", "a", "n", "i", "c", "a", "l">>

T_MechanicalCherub == <<"M", "e", "c", "h", "a", "n", "i", "c", "a", "l", " ", "c", "h", "e", "r", "u", "b">>

T_1 == <<"1">>

\* sub in cs
IsSubstring(sub, cs) ==
    \E i \in 0..(Len(cs) - Len(sub)) : SubSeq(cs, i + 1, i + Len(sub)) = sub

\* self.part_Roboticized and self.part_Roboticized_ChanceOneIn == '1'
fully_roboticized(e) ==
    e.part_Roboticized /\ e.part_Roboticized_ChanceOneIn = PyStr(T_1)

\* The three marks of a mental shield, whatever the classification.
has_shield_mark(e) ==
    \/ e.part_MentalShield
    \/ IsSubstring(T_Mechanical, e.name)
    \/ fully_roboticized(e)

\* TRUE for True, FALSE for None.
hasmentalshield(e) ==
    active_or_inactive_character(e) = ACTIVE_CHAR /\ has_shield_mark(e)

\* x + n for a parsed integer x, or the exception of the parse.
add_int(x, n) == IF IsErr(x) THEN x ELSE PyInt(x.n + n)

\* ma = 4; if self.stat_MA_Value: ma += int(self.stat_MA_Value)
ma_base(e) ==
    IF Truthy(e.stat_MA_Value) THEN add_int(py_int(e.stat_MA_Value), 4) ELSE PyInt(4)

\* Variant of ma_active that leaves the MA stat out.
ma_active_no_stat(e) ==
    LET mod == attribute_helper_mod(e, "Willpower", "avg")
    IN  IF IsErr(mod) THEN mod
        ELSE IF IsNone(mod) THEN Raise("TypeError")
        ELSE PyInt(4 + mod.n)

\* The ACTIVE_CHAR branch of ma; ma += None raises TypeError.
\* ma += self.attribute_helper_mod('Willpower')
ma_sum(base, mod) ==
    IF IsErr(base) THEN base
    ELSE IF IsErr(mod) THEN mod
    ELSE IF IsNone(mod) THEN Raise("TypeError")
    ELSE PyInt(base.n + mod.n)

ma_active(e) == ma_sum(ma_base(e), attribute_helper_mod(e, "Willpower", "avg"))

ma(e) ==
    LET char_type == active_or_inactive_character(e)
    IN  IF hasmentalshield(e) THEN PyNone
        ELSE IF char_type = INACTIVE_CHAR THEN PyInt(0)
        ELSE IF char_type = ACTIVE_CHAR THEN ma_active(e)
        ELSE PyNone

T_plus1d == <<"+", "1", "d">>

\* Variant of marange_text: the dice text starts at ma+minmod, not one below.
marange_text_from_minimum(base, minmod, maxmod) ==
    IF IsErr(base) THEN base
    ELSE IF IsErr(minmod) THEN minmod
    ELSE IF IsErr(maxmod) THEN maxmod
    ELSE IF minmod = maxmod
         THEN IF IsNone(minmod) THEN Raise("TypeError")
              ELSE PyStr(IntText(base.n + minmod.n))
    ELSE IF IsNone(minmod) \/ IsNone(maxmod) THEN Raise("TypeError")
    ELSE PyStr(IntText(base.n + minmod.n) \o T_plus1d
                   \o IntText(maxmod.n - minmod.n + 1))

\* The text marange builds from ma and the two modifiers; ma+minmod with
\* minmod None raises TypeError.
marange_text(base, minmod, maxmod) ==
    IF IsErr(base) THEN base
    ELSE IF IsErr(minmod) THEN minmod
    ELSE IF IsErr(maxmod) THEN maxmod
    ELSE IF minmod = maxmod
         THEN IF IsNone(minmod) THEN Raise("TypeError")
              ELSE PyStr(IntText(base.n + minmod.n))
    ELSE IF IsNone(minmod) \/ IsNone(maxmod) THEN Raise("TypeError")
    ELSE PyStr(IntText(base.n + minmod.n - 1) \o T_plus1d
                   \o IntText(maxmod.n - minmod.n + 1))

\* The ACTIVE_CHAR branch of marange.
marange_active(e) ==
    marange_text(ma_base(e),
                 attribute_helper_mod(e, "Willpower", "min"),
                 attribute_helper_mod(e, "Willpower", "max"))

marange(e) ==
    LET char_type == active_or_inactive_character(e)
    IN  IF hasmentalshield(e) THEN PyNone
        ELSE IF char_type = INACTIVE_CHAR THEN PyNone
        ELSE IF char_type = ACTIVE_CHAR THEN marange_active(e)
        ELSE PyNone

-----------------------------------------------------------------------------
(* Entities whose mental armor is evaluated *)

\* name, part_MentalShield, part_Roboticized, part_Roboticized_ChanceOneIn
ShieldMarks ==
    {[name |-> Blank.name, shield |-> FALSE, robo |-> FALSE, chance |-> PyNone],
     [name |-> Blank.name, shield |-> TRUE,  robo |-> FALSE, chance |-> PyNone],
     [name |-> T_MechanicalCherub, shield |-> FALSE, robo |-> FALSE, chance |-> PyNone],
     [name |-> Blank.name, shield |-> FALSE, robo |-> TRUE, chance |-> PyStr(T_1)],
     [name |-> Blank.name, shield |-> FALSE, robo |-> TRUE, chance |-> PyStr(IntText(10))]}

WillpowerStats ==
    {NoStat,
     [sValue |-> PyNone, Value |-> PyStr(IntText(15)), Boost |-> PyNone],
     [sValue |-> PyNone, Value |-> PyStr(IntText(20)), Boost |-> PyNone],
     [sValue |-> PyStr(<<[from |-> 1, dice |-> RangeText(16, 19)]>>),
      Value |-> PyNone, Boost |-> PyStr(IntText(1))],
     [sValue |-> PyStr(<<[from |-> 1, dice |-> RangeText(16, 19)]>>),
      Value |-> PyNone, Boost |-> PyStr(IntText(0 - 7))]}

MaEntities ==
    {[WithLevel(Blank, FALSE) EXCEPT
          !.name = mark.name,
          !.part_MentalShield = mark.shield,
          !.part_Roboticized = mark.robo,
          !.part_Roboticized_ChanceOneIn = mark.chance,
          !.part_Physics_Takeable = tk,
          !.part_Combat = c,
          !.part_Brain = c,
          !.stat_MA_Value = stat,
          !.stat = [a \in AttrNames |-> IF a = "Willpower" THEN wil ELSE NoStat]] :
        mark \in ShieldMarks,
        tk \in {PyNone, PyStr(T_false)},
        c \in BOOLEAN,
        stat \in {PyNone, PyStr(IntText(0)), PyStr(IntText(2)), PyStr(IntText(0 - 1))},
        wil \in WillpowerStats}

InitMa ==
    /\ ent \in MaEntities
    /\ query = NoQuery
    /\ result = PyNone

EvalMa ==
    /\ query = NoQuery
    /\ query' = Q("ma", "", "")
    /\ result' = ma(ent)
    /\ UNCHANGED ent

EvalMarange ==
    /\ query = NoQuery
    /\ query' = Q("marange", "", "")
    /\ result' = marange(ent)
    /\ UNCHANGED ent

NextMa == EvalMa \/ EvalMarange \/ EvalDv

SpecMa == InitMa /\ [][NextMa]_vars

-----------------------------------------------------------------------------
(* Properties of ma *)

Classification == active_or_inactive_character(ent)

WillpowerModifier == attribute_helper_mod(ent, "Willpower", "avg")

\* C12: for every entity with a MentalShield part, with 'Mechanical'
\* in its name or fully roboticized, ma is absent, whatever its classification,
\* MA stat and Willpower fields.
C12_MarkedAlwaysAbsent ==
    (query.op = "ma" /\ has_shield_mark(ent)) => IsNone(result)

\* C13: ma of an active character without a mental shield is 4 + MA stat (0 if
\* unset) + the average Willpower modifier; ma of an inactive character is 0;
\* ma of an entity that is not a character is absent.
C13_MentalArmor ==
    query.op = "ma" =>
        /\ (Classification = ACTIVE_CHAR /\ ~has_shield_mark(ent)
                /\ IsInt(WillpowerModifier)) =>
               result = PyInt(4 + (IF IsNone(ent.stat_MA_Value) THEN 0
                                   ELSE py_int(ent.stat_MA_Value).n)
                                + WillpowerModifier.n)
        /\ Classification = INACTIVE_CHAR => result = PyInt(0)
        /\ Classification = 0 => IsNone(result)

\* An unshielded active character with an MA stat and a non-zero modifier.
C13_Witness ==
    /\ query.op = "ma"
    /\ Classification = ACTIVE_CHAR /\ ~has_shield_mark(ent)
    /\ Truthy(ent.stat_MA_Value) /\ py_int(ent.stat_MA_Value).n # 0
    /\ IsInt(WillpowerModifier) /\ WillpowerModifier.n # 0
    /\ IsInt(result)

\* The attribute a derived value takes its modifier from.
ModifierAttr == IF query.op = "dv" THEN "Agility" ELSE "Willpower"

\* C14: when the attribute of an active character has no raw value, the
\* derived value that adds its modifier (dv for Agility, ma and marange for
\* Willpower) is absent: no error, no default modifier.
C14_AbsentModifierPropagates ==
    (/\ query.op \in {"dv", "ma", "marange"}
     /\ Classification = ACTIVE_CHAR
     /\ IsNone(attribute_helper(ent, ModifierAttr))
     /\ query.op = "dv" => (IsNone(ent.part_Shield_DV) /\ ~immobile(ent))
     /\ query.op # "dv" => ~hasmentalshield(ent))
        => IsNone(result)

-----------------------------------------------------------------------------
(* Elemental resistance *)

\* Truth value of self.part_Armor: the Armor part has at least one attribute.
part_Armor_truthy(e) ==
    \/ ~IsNone(e.part_Armor_AV) \/ ~IsNone(e.part_Armor_DV)
    \/ ~IsNone(e.part_Armor_WornOn) \/ ~IsNone(e.part_Armor_SpeedBonus)
    \/ \E a \in AttrNames : ~IsNone(e.part_Armor[a])
    \/ \E el \in ArmorElements : ~IsNone(e.part_Armor_Resistance[el])

\* Variant of resistance_mutation in which Carapace helps against every
\* element.
resistance_mutation_any_element(m, val, element) ==
    LET carapace == IF m.name = "Carapace"
                    THEN LET level == py_int(mutation_level(m))
                             start == IF IsNone(val) THEN PyInt(0) ELSE py_int(val)
                         IN  IF IsErr(start) THEN start
                             ELSE IF IsErr(level) THEN level
                             ELSE PyInt(start.n + level.n * 5 + 5)
                    ELSE val
    IN  IF IsErr(carapace) THEN carapace
        ELSE IF m.name = "SlogGlands" /\ element = "Acid" THEN PyInt(100)
        ELSE carapace

\* One pass of the mutation loop of resistance.
resistance_mutation(m, val, element) ==
    LET carapace == IF m.name = "Carapace" /\ element \in {"Heat", "Cold"}
                    THEN LET level == py_int(mutation_level(m))
                             start == IF IsNone(val) THEN PyInt(0) ELSE py_int(val)
                         IN  IF IsErr(start) THEN start
                             ELSE IF IsErr(level) THEN level
                             ELSE PyInt(start.n + level.n * 5 + 5)
                    ELSE val
    IN  IF IsErr(carapace) THEN carapace
        ELSE IF m.name = "SlogGlands" /\ element = "Acid" THEN PyInt(100)
        ELSE carapace

RECURSIVE resistance_mutations(_, _, _)
resistance_mutations(ms, val, element) ==
    IF ms = <<>> \/ IsErr(val) THEN val
    ELSE resistance_mutations(Tail(ms), resistance_mutation(Head(ms), val, element),
                              element)

resistance(e, element0) ==
    LET armor   == part_Armor_truthy(e)
        element == IF armor /\ element0 = "Electric" THEN "Elec" ELSE element0
        val1    == IF armor THEN e.part_Armor_Resistance[element]
                   ELSE e.stat_Resistance_Value[element0]
        val2    == IF fully_roboticized(e)
                   THEN IF element \in {"Heat", "Cold"} THEN PyInt(25)
                        ELSE IF element = "Electric" THEN PyInt(0 - 50)
                        ELSE val1
                   ELSE val1
    IN  int_or_none(resistance_mutations(e.mutation, val2, element))

-----------------------------------------------------------------------------
(* Entities whose resistances are evaluated *)

\* stat_<element>Resistance_Value, a different value for each element.
BaseResistances ==
    [Acid |-> PyStr(IntText(10)), Cold |-> PyStr(IntText(11)),
     Electric |-> PyStr(IntText(12)), Heat |-> PyStr(IntText(0 - 13))]

\* part_Armor_<element>
ArmorResistances ==
    [Acid |-> PyStr(IntText(20)), Cold |-> PyStr(IntText(0 - 21)),
     Elec |-> PyStr(IntText(22)), Heat |-> PyStr(IntText(23))]

ResistanceMutationNames == {"Carapace", "SlogGlands", "Horns"}

ResistanceEntities ==
    {[Blank EXCEPT
          !.stat_Resistance_Value = IF base THEN BaseResistances ELSE @,
          !.part_Armor_AV = IF armor = "none" THEN PyNone ELSE PyStr(IntText(1)),
          !.part_Armor_Resistance = IF armor = "resistant" THEN ArmorResistances ELSE @,
          !.part_Roboticized = ~IsNone(chance),
          !.part_Roboticized_ChanceOneIn = chance,
          !.mutation = muts] :
        base \in BOOLEAN,
        armor \in {"none", "plain", "resistant"},
        chance \in {PyNone, PyStr(T_1), PyStr(IntText(10))},
        muts \in MutationsOf(ResistanceMutationNames)}

InitResistance ==
    /\ ent \in ResistanceEntities
    /\ query = NoQuery
    /\ result = PyNone

EvalResistance ==
    /\ query = NoQuery
    /\ \E element \in Elements :
          /\ query' = Q("resistance", element, "")
          /\ result' = resistance(ent, element)
    /\ UNCHANGED ent

NextResistance == EvalResistance

SpecResistance == InitResistance /\ [][NextResistance]_vars

-----------------------------------------------------------------------------
(* Properties of resistance *)

MutationLevel(name) ==
    LET i == CHOOSE i \in 1..Len(ent.mutation) : ent.mutation[i].name = name
    IN  py_int(ent.mutation[i].Level).n

\* The Carapace bonus of ent for the queried element.
CarapaceBonus ==
    IF HasMutation({"Carapace"}) /\ query.attr \in {"Heat", "Cold"}
    THEN MutationLevel("Carapace") * 5 + 5
    ELSE 0

\* C15: for a fully roboticized entity resistance starts from Heat 25,
\* Cold 25 and Electric -50, to which the mutation bonus is added; the base
\* stat field and the Armor part's field are overridden, also when the entity
\* has an Armor part.
C15_RoboticizedFixed ==
    (query.op = "resistance" /\ fully_roboticized(ent)
        /\ query.attr \in {"Heat", "Cold", "Electric"}) =>
        result = PyInt((IF query.attr = "Electric" THEN 0 - 50 ELSE 25) + CarapaceBonus)

\* The field resistance reads for the queried element: the Armor part's when
\* the entity has an Armor part, else the base stat field.
ResistanceField ==
    IF part_Armor_truthy(ent)
    THEN ent.part_Armor_Resistance[IF query.attr = "Electric" THEN "Elec" ELSE query.attr]
    ELSE ent.stat_Resistance_Value[query.attr]

\* The value the mutations adjust: that field, or what a fully roboticized
\* entity has in its place.
ResistanceStart ==
    IF fully_roboticized(ent)
    THEN resistance([ent EXCEPT !.mutation = <<>>], query.attr)
    ELSE int_or_none(ResistanceField)

\* C16: resistance is the base stat field, replaced by the Armor part's field
\* when the entity has an Armor part, then adjusted by mutations: Carapace of
\* level L adds L*5+5 to Heat and Cold (an absent value counting as 0) and to
\* nothing else, SlogGlands sets Acid to 100; with no field and no applicable
\* mutation the resistance is absent.
C16_ResistancePipeline ==
    query.op = "resistance" =>
        IF HasMutation({"Carapace"}) /\ query.attr \in {"Heat", "Cold"}
        THEN result = PyInt((IF IsNone(ResistanceStart) THEN 0 ELSE ResistanceStart.n)
                               + CarapaceBonus)
        ELSE IF HasMutation({"SlogGlands"}) /\ query.attr = "Acid"
        THEN result = PyInt(100)
        ELSE result = ResistanceStart

\* Carapace on an entity with an Armor part that has no Heat field, although
\* the base stat field is set: the bonus is added to 0.
C16_Witness ==
    /\ query = Q("resistance", "Heat", "")
    /\ ~fully_roboticized(ent)
    /\ HasMutation({"Carapace"}) /\ HasMutation({"SlogGlands"})
    /\ part_Armor_truthy(ent)
    /\ IsNone(ResistanceField)
    /\ ~IsNone(ent.stat_Resistance_Value["Heat"])
    /\ result = PyInt(CarapaceBonus)

-----------------------------------------------------------------------------
(* Quickness *)

\* One pass of the mutation loop of quickness over the int mutation_val: the
\* next mutation_val, or the exception int(info['Level']) raises.
quickness_mutation(m, mutation_val) ==
    LET cold  == IF m.name = "ColdBlooded" THEN mutation_val.n - 10 ELSE mutation_val.n
        level == py_int(mutation_level(m))
    IN  IF m.name = "HeightenedSpeed"
        THEN IF IsErr(level) THEN level ELSE PyInt(cold + level.n * 2 + 13)
        ELSE PyInt(cold)

RECURSIVE quickness_mutations(_, _)
quickness_mutations(ms, mutation_val) ==
    IF ms = <<>> \/ IsErr(mutation_val) THEN mutation_val
    ELSE quickness_mutations(Tail(ms), quickness_mutation(Head(ms), mutation_val))

\* return mutation_val + 100 if self.stat_Speed_Value is None
\*        else int(self.stat_Speed_Value)
\* The conditional expression binds weaker than +.
quickness(e) ==
    IF active_or_inactive_character(e) = ACTIVE_CHAR
    THEN LET mutation_val == quickness_mutations(e.mutation, PyInt(0))
         IN  IF IsErr(mutation_val) THEN mutation_val
             ELSE IF mutation_val.n # 0
             THEN IF IsNone(e.stat_Speed_Value) THEN PyInt(mutation_val.n + 100)
                  ELSE py_int(e.stat_Speed_Value)
             ELSE int_or_none(e.stat_Speed_Value)
    ELSE IF part_Armor_truthy(e) THEN int_or_none(e.part_Armor_SpeedBonus)
    ELSE PyNone

QuicknessMutationNames == {"ColdBlooded", "HeightenedSpeed", "Horns"}

QuicknessEntities ==
    {[Blank EXCEPT
          !.part_Physics_Takeable = tk,
          !.part_Combat = c,
          !.part_Brain = c,
          !.stat_Speed_Value = speed,
          !.part_Armor_SpeedBonus = bonus,
          !.mutation = muts] :
        tk \in {PyNone, PyStr(T_false)},
        c \in BOOLEAN,
        speed \in {PyNone, PyStr(IntText(100)), PyStr(IntText(90))},
        bonus \in {PyNone, PyStr(IntText(0 - 5))},
        muts \in MutationsOf(QuicknessMutationNames)}

InitQuickness ==
    /\ ent \in QuicknessEntities
    /\ query = NoQuery
    /\ result = PyNone

EvalQuickness ==
    /\ query = NoQuery
    /\ query' = Q("quickness", "", "")
    /\ result' = quickness(ent)
    /\ UNCHANGED ent

NextQuickness == EvalQuickness

SpecQuickness == InitQuickness /\ [][NextQuickness]_vars

\* Speed stat, or 100 when it is unset.
BaseSpeed ==
    IF IsNone(ent.stat_Speed_Value) THEN 100 ELSE py_int(ent.stat_Speed_Value).n

\* -10 for ColdBlooded, level * 2 + 13 for HeightenedSpeed.
SpeedContributions ==
    (IF HasMutation({"ColdBlooded"}) THEN 0 - 10 ELSE 0)
        + (IF HasMutation({"HeightenedSpeed"})
           THEN MutationLevel("HeightenedSpeed") * 2 + 13 ELSE 0)

\* C17: the quickness of an active character is its base speed (the Speed
\* stat, or 100 when unset) plus -10 for ColdBlooded plus level * 2 + 13 for
\* HeightenedSpeed; a set Speed stat does not make the mutation part vanish.
C17_SpeedPlusMutations ==
    (query.op = "quickness" /\ Classification = ACTIVE_CHAR) =>
        result = PyInt(BaseSpeed + SpeedContributions)

-----------------------------------------------------------------------------
(* Charge use *)

T_ProgrammableRecoiler == <<"P", "r", "o", "g", "r", "a", "m", "m", "a", "b", "l", "e", "R", "e", "c", "o", "i", "l", "e", "r">>

T_Chair == <<"C", "h", "a", "i", "r">>

T_ChairEffect == <<"C", "h", "a", "i", "r", " ", "E", "f", "f", "e", "c", "t">>

\* The part names chargefunction has a label for (lines 382-411).
CHARGE_LABELS ==
    (<<"S", "t", "u", "n", "O", "n", "H", "i", "t">> :> <<"S", "t", "u", "n", " ", "e", "f", "f", "e", "c", "t">>) @@
    (<<"E", "n", "e", "r", "g", "y", "A", "m", "m", "o", "L", "o", "a", "d", "e", "r">> :> <<"W", "e", "a", "p", "o", "n", " ", "P", "o", "w", "e", "r">>) @@
    (<<"G", "a", "s", "l", "i", "g", "h", "t">> :> <<"W", "e", "a", "p", "o", "n", " ", "P", "o", "w", "e", "r">>) @@
    (<<"V", "i", "b", "r", "o", "W", "e", "a", "p", "o", "n">> :> <<"A", "d", "a", "p", "t", "i", "v", "e", " ", "P", "e", "n", "e", "t", "r", "a", "t", "i", "o", "n">>) @@
    (<<"M", "e", "c", "h", "a", "n", "i", "c", "a", "l", "W", "i", "n", "g", "s">> :> <<"F", "l", "i", "g", "h", "t">>) @@
    (<<"R", "o", "c", "k", "e", "t", "S", "k", "a", "t", "e", "s">> :> <<"P", "o", "w", "e", "r", " ", "S", "k", "a", "t", "e">>) @@
    (<<"G", "e", "o", "m", "a", "g", "n", "e", "t", "i", "c", "D", "i", "s", "c">> :> <<"T", "h", "r", "o", "w", " ", "E", "f", "f", "e", "c", "t">>) @@
    (<<"T", "e", "l", "e", "p", "o", "r", "t", "e", "r">> :> <<"T", "e", "l", "e", "p", "o", "r", "t", "a", "t", "i", "o", "n">>) @@
    (<<"E", "q", "u", "i", "p", "S", "t", "a", "t", "B", "o", "o", "s", "t">> :> <<"S", "t", "a", "t", " ", "B", "o", "o", "s", "t">>) @@
    (<<"P", "a", "r", "t", "s", "G", "a", "s">> :> <<"G", "a", "s", " ", "D", "i", "s", "p", "e", "r", "s", "i", "o", "n">>) @@
    (<<"R", "e", "d", "u", "c", "e", "C", "o", "o", "l", "d", "o", "w", "n", "s">> :> <<"C", "o", "o", "l", "d", "o", "w", "n", " ", "R", "e", "d", "u", "c", "t", "i", "o", "n">>) @@
    (<<"R", "e", "a", "l", "i", "t", "y", "S", "t", "a", "b", "i", "l", "i", "z", "a", "t", "i", "o", "n">> :> <<"R", "e", "a", "l", "i", "t", "y", " ", "S", "t", "a", "b", "i", "l", "i", "z", "a", "t", "i", "o", "n">>) @@
    (<<"L", "a", "t", "c", "h", "e", "s", "O", "n">> :> <<"L", "a", "t", "c", "h", " ", "E", "f", "f", "e", "c", "t">>) @@
    (<<"T", "o", "o", "l", "b", "o", "x">> :> <<"T", "i", "n", "k", "e", "r", " ", "B", "o", "n", "u", "s">>) @@
    (<<"C", "o", "n", "v", "e", "r", "s", "a", "t", "i", "o", "n", "S", "c", "r", "i", "p", "t">> :> <<"A", "u", "d", "i", "o", " ", "P", "r", "o", "c", "e", "s", "s", "i", "n", "g">>)

\* hagadias.constants.HARDCODED_CHARGE_USE: object name -> charge used.
T_Hardcoded == <<"H", "a", "r", "d", "c", "o", "d", "e", "d">>

T_Zeroed == <<"Z", "e", "r", "o", "e", "d">>

HARDCODED_CHARGE_USE == (T_Hardcoded :> 400) @@ (T_Zeroed :> 0)

\* hagadias.constants.CHARGE_USE_REASONS: object name -> label.
T_Reasoned == <<"R", "e", "a", "s", "o", "n", "e", "d">>

T_SpecialEffect == <<"S", "p", "e", "c", "i", "a", "l", " ", "E", "f", "f", "e", "c", "t">>

CHARGE_USE_REASONS == (T_Hardcoded :> T_SpecialEffect) @@ (T_Reasoned :> T_SpecialEffect)

\* Variant of charge_contributes that does not skip ProgrammableRecoiler.
charge_contributes_any_part(p) ==
    ~IsNone(p.ChargeUse) /\ IsInt(py_int(p.ChargeUse)) /\ py_int(p.ChargeUse).n > 0

\* part != 'ProgrammableRecoiler' and chg is not None and int(chg) > 0,
\* for a part on which int(chg) does not raise.
charge_contributes(p) ==
    /\ p.name # T_ProgrammableRecoiler
    /\ ~IsNone(p.ChargeUse)
    /\ IsInt(py_int(p.ChargeUse))
    /\ py_int(p.ChargeUse).n > 0

\* int(chg) raises on this part.
charge_raises(p) ==
    /\ p.name # T_ProgrammableRecoiler
    /\ ~IsNone(p.ChargeUse)
    /\ IsErr(py_int(p.ChargeUse))

\* The exception the loop over the parts ends with, None if it completes.
charge_raised(e) ==
    LET bad == SelectSeq(e.part, charge_raises)
    IN  IF bad = <<>> THEN PyNone ELSE py_int(Head(bad).ChargeUse)

\* The contributing parts, in part order.
charge_parts(e) == SelectSeq(e.part, charge_contributes)

RECURSIVE charge_sum(_)
charge_sum(ps) ==
    IF ps = <<>> THEN 0 ELSE py_int(Head(ps).ChargeUse).n + charge_sum(Tail(ps))

chargeused(e) ==
    LET total  == charge_sum(charge_parts(e))
        charge == IF e.name \in DOMAIN HARDCODED_CHARGE_USE
                  THEN HARDCODED_CHARGE_USE[e.name] ELSE total
    IN  IF IsErr(charge_raised(e)) THEN charge_raised(e)
        ELSE IF charge > 0 THEN PyInt(charge) ELSE PyNone

\* Variant of charge_label that prefers NameForStatus to the label table.
charge_label_status_first(p) ==
    IF ~IsNone(p.NameForStatus) THEN p.NameForStatus.s
    ELSE IF p.name \in DOMAIN CHARGE_LABELS THEN CHARGE_LABELS[p.name]
    ELSE IF p.name = T_Chair THEN T_ChairEffect
    ELSE p.name

\* The if/elif chain of chargefunction (lines 382-416).
charge_label(p) ==
    IF p.name \in DOMAIN CHARGE_LABELS THEN CHARGE_LABELS[p.name]
    ELSE IF ~IsNone(p.NameForStatus) THEN p.NameForStatus.s
    ELSE IF p.name = T_Chair THEN T_ChairEffect
    ELSE p.name

\* func + ' [' + chg + ']'
charge_detailed(p) == charge_label(p) \o <<" ", "[">> \o p.ChargeUse.s \o <<"]">>

\* The entry CHARGE_USE_REASONS adds for the object's name (lines 419-425).
charge_reason(e) ==
    IF e.name \in DOMAIN CHARGE_USE_REASONS
    THEN LET func == CHARGE_USE_REASONS[e.name]
         IN  <<[func |-> func,
                detailed |-> IF e.name \in DOMAIN HARDCODED_CHARGE_USE
                             THEN func \o <<" ", "[">>
                                      \o IntText(HARDCODED_CHARGE_USE[e.name]) \o <<"]">>
                             ELSE func]>>
    ELSE <<>>

\* funcs and detailedfuncs, entry by entry.
charge_funcs(e) ==
    LET ps == charge_parts(e)
    IN  [i \in 1..Len(ps) |-> [func |-> charge_label(ps[i]),
                               detailed |-> charge_detailed(ps[i])]]
            \o charge_reason(e)

\* ', '.join(texts)
RECURSIVE JoinComma(_)
JoinComma(texts) ==
    IF texts = <<>> THEN <<>>
    ELSE IF Len(texts) = 1 THEN texts[1]
    ELSE texts[1] \o <<",", " ">> \o JoinComma(Tail(texts))

chargefunction(e) ==
    LET funcs == charge_funcs(e)
    IN  IF IsErr(charge_raised(e)) THEN charge_raised(e)
        ELSE IF Len(funcs) = 0 THEN PyNone
        ELSE IF Len(funcs) = 1 THEN PyStr(funcs[1].func)
        ELSE PyStr(JoinComma([i \in 1..Len(funcs) |-> funcs[i].detailed]))

-----------------------------------------------------------------------------
(* Entities whose charge use is evaluated *)

MaxParts == 2

\* Parts with their ChargeUse and NameForStatus attributes.
ChargeParts ==
    {[name |-> <<"S", "t", "u", "n", "O", "n", "H", "i", "t">>, ChargeUse |-> PyStr(IntText(5)), NameForStatus |-> PyNone],
     [name |-> <<"S", "t", "u", "n", "O", "n", "H", "i", "t">>, ChargeUse |-> PyStr(IntText(5)), NameForStatus |-> PyStr(<<"S", "h", "o", "c", "k", "e", "r">>)],
     [name |-> <<"E", "n", "e", "r", "g", "y", "A", "m", "m", "o", "L", "o", "a", "d", "e", "r">>, ChargeUse |-> PyStr(IntText(10)), NameForStatus |-> PyNone],
     [name |-> <<"C", "h", "a", "i", "r">>, ChargeUse |-> PyStr(IntText(3)), NameForStatus |-> PyNone],
     [name |-> <<"C", "h", "a", "i", "r">>, ChargeUse |-> PyStr(IntText(3)), NameForStatus |-> PyStr(<<"S", "e", "a", "t">>)],
     [name |-> <<"C", "a", "p", "a", "c", "i", "t", "o", "r">>, ChargeUse |-> PyStr(IntText(7)), NameForStatus |-> PyNone],
     [name |-> <<"S", "c", "a", "n", "n", "e", "r">>, ChargeUse |-> PyStr(IntText(2)), NameForStatus |-> PyStr(<<"S", "c", "a", "n">>)],
     [name |-> <<"P", "r", "o", "g", "r", "a", "m", "m", "a", "b", "l", "e", "R", "e", "c", "o", "i", "l", "e", "r">>, ChargeUse |-> PyStr(IntText(100)), NameForStatus |-> PyNone],
     [name |-> <<"P", "h", "y", "s", "i", "c", "s">>, ChargeUse |-> PyNone, NameForStatus |-> PyNone],
     [name |-> <<"L", "a", "m", "p">>, ChargeUse |-> PyStr(IntText(0)), NameForStatus |-> PyNone],
     [name |-> <<"D", "r", "a", "i", "n">>, ChargeUse |-> PyStr(IntText(0 - 2)), NameForStatus |-> PyNone]}

\* self.all_attributes['part']: an ordered mapping, each part at most once.
PartLists ==
    {q \in DistinctSeqs(ChargeParts, MaxParts) :
        \A i, j \in 1..Len(q) : q[i].name = q[j].name => i = j}

ChargeEntities ==
    {[Blank EXCEPT !.name = name, !.part = parts] :
        name \in {Blank.name, T_Hardcoded, T_Zeroed, T_Reasoned},
        parts \in PartLists}

InitCharge ==
    /\ ent \in ChargeEntities
    /\ query = NoQuery
    /\ result = PyNone

EvalChargeUsed ==
    /\ query = NoQuery
    /\ query' = Q("chargeused", "", "")
    /\ result' = chargeused(ent)
    /\ UNCHANGED ent

EvalChargeFunction ==
    /\ query = NoQuery
    /\ query' = Q("chargefunction", "", "")
    /\ result' = chargefunction(ent)
    /\ UNCHANGED ent

NextCharge == EvalChargeUsed \/ EvalChargeFunction

SpecCharge == InitCharge /\ [][NextCharge]_vars

-----------------------------------------------------------------------------
(* Properties of chargeused and chargefunction *)

\* The ChargeUse of a part as a number, 0 when unset.
ChargeOf(p) == IF IsNone(p.ChargeUse) THEN 0 ELSE py_int(p.ChargeUse).n

\* A part counts when it is not ProgrammableRecoiler and its ChargeUse is
\* positive.
Counts(p) == p.name # T_ProgrammableRecoiler /\ ChargeOf(p) > 0

RECURSIVE PositiveChargeSum(_)
PositiveChargeSum(ps) ==
    IF ps = <<>> THEN 0
    ELSE (IF Counts(Head(ps)) THEN ChargeOf(Head(ps)) ELSE 0) + PositiveChargeSum(Tail(ps))

\* C18: chargeused is the sum of the positive ChargeUse values of all parts
\* except ProgrammableRecoiler; an object named in the override table gets the
\* table's value instead; the result is absent when that total is not
\* greater than 0.
C18_ChargeUsed ==
    query.op = "chargeused" =>
        LET total == IF ent.name \in DOMAIN HARDCODED_CHARGE_USE
                     THEN HARDCODED_CHARGE_USE[ent.name]
                     ELSE PositiveChargeSum(ent.part)
        IN  result = IF total > 0 THEN PyInt(total) ELSE PyNone

\* Parts drawing 5 and 10 give 15.
C18_Witness ==
    /\ query.op = "chargeused"
    /\ ent.name \notin DOMAIN HARDCODED_CHARGE_USE
    /\ Len(ent.part) = 2
    /\ ChargeOf(ent.part[1]) = 5 /\ ChargeOf(ent.part[2]) = 10
    /\ result = PyInt(15)

\* Label by the table, else NameForStatus, else the part name.
ThreeLevelLabel(p) ==
    IF p.name \in DOMAIN CHARGE_LABELS THEN CHARGE_LABELS[p.name]
    ELSE IF ~IsNone(p.NameForStatus) THEN p.NameForStatus.s
    ELSE p.name

\* The same with 'Chair Effect' for a Chair part without NameForStatus.
FourLevelLabel(p) ==
    IF p.name \notin DOMAIN CHARGE_LABELS /\ IsNone(p.NameForStatus) /\ p.name = T_Chair
    THEN T_ChairEffect
    ELSE ThreeLevelLabel(p)

Bracketed(label, amount) == label \o <<" ", "[">> \o amount \o <<"]">>

\* The text for entries [label, detailed]: absent for none, the bare label
\* for one, the detailed texts joined by ', ' for more.
ChargeText(entries) ==
    IF Len(entries) = 0 THEN PyNone
    ELSE IF Len(entries) = 1 THEN PyStr(entries[1].label)
    ELSE PyStr(JoinComma([i \in 1..Len(entries) |-> entries[i].detailed]))

\* One entry for each counting part, in part order.
PartEntries(Label(_)) ==
    LET ps == SelectSeq(ent.part, Counts)
    IN  [i \in 1..Len(ps) |->
            [label |-> Label(ps[i]),
             detailed |-> Bracketed(Label(ps[i]), ps[i].ChargeUse.s)]]

\* The entry of an object with a name in CHARGE_USE_REASONS.
ReasonEntriesOf(name) ==
    IF name \notin DOMAIN CHARGE_USE_REASONS THEN <<>>
    ELSE LET label == CHARGE_USE_REASONS[name]
         IN  <<[label |-> label,
                detailed |-> IF name \in DOMAIN HARDCODED_CHARGE_USE
                             THEN Bracketed(label, IntText(HARDCODED_CHARGE_USE[name]))
                             ELSE label]>>

ReasonEntries == ReasonEntriesOf(ent.name)

\* C19 as stated: chargefunction labels each contributing part by the table,
\* else by its NameForStatus, else by its name; without a contributing part
\* it is absent, with one it is the bare label, with more it is the labels in
\* part order, each followed by its charge in square brackets, joined by ', '.
C19_ThreeLevelLabels ==
    query.op = "chargefunction" => result = ChargeText(PartEntries(ThreeLevelLabel))

\* C19 amended: a Chair part without NameForStatus is labelled 'Chair Effect',
\* and an object named in the reasons table has one more contributor after its
\* parts: the table's label, followed in the joined form by the hardcoded
\* charge in square brackets when the object has one and by nothing otherwise.
C19_LabelsWithChairAndReason ==
    query.op = "chargefunction" =>
        result = ChargeText(PartEntries(FourLevelLabel) \o ReasonEntries)

\* Two contributing parts, one of them a Chair without NameForStatus.
C19_Witness ==
    /\ query.op = "chargefunction"
    /\ ent.name \notin DOMAIN CHARGE_USE_REASONS
    /\ Len(ent.part) = 2 /\ Counts(ent.part[1]) /\ Counts(ent.part[2])
    /\ ent.part[1].name \in DOMAIN CHARGE_LABELS
    /\ ent.part[2].name = T_Chair /\ IsNone(ent.part[2].NameForStatus)
    /\ result = PyStr(Bracketed(CHARGE_LABELS[ent.part[1].name], ent.part[1].ChargeUse.s)
                          \o <<",", " ">>
                          \o Bracketed(T_ChairEffect, ent.part[2].ChargeUse.s))

-----------------------------------------------------------------------------
(* Tier *)

\* self.part_TinkerItem_Bits[-1], then int(val) if val.isdigit() else 0
\* An empty Bits code has no last character: IndexError.
bits_tier(bits) ==
    IF bits = <<>> THEN Raise("IndexError")
    ELSE IF str_isdigit(bits[Len(bits)]) THEN py_int(PyStr(<<bits[Len(bits)]>>))
    ELSE PyInt(0)

\* Variant of tier that looks at the level before the Bits code.
tier_level_first(e) ==
    IF ~is_specified(e, "tag_Tier_Value")
    THEN IF ~IsNone(lv(e))
         THEN LET level == level_of(lv(e))
              IN  IF IsErr(level) THEN level ELSE PyInt(FloorDiv(level.n, 5))
         ELSE IF is_specified(e, "part_TinkerItem_Bits")
         THEN bits_tier(e.part_TinkerItem_Bits.s)
         ELSE int_or_none(e.tag_Tier_Value)
    ELSE int_or_none(e.tag_Tier_Value)

\* Variant of tier that takes an inherited tier field for the entity's own.
tier_inherited_as_own(e) ==
    IF IsNone(e.tag_Tier_Value)
    THEN IF is_specified(e, "part_TinkerItem_Bits")
         THEN bits_tier(e.part_TinkerItem_Bits.s)
         ELSE IF ~IsNone(lv(e))
         THEN LET level == level_of(lv(e))
              IN  IF IsErr(level) THEN level ELSE PyInt(FloorDiv(level.n, 5))
         ELSE int_or_none(e.tag_Tier_Value)
    ELSE int_or_none(e.tag_Tier_Value)

tier(e) ==
    IF ~is_specified(e, "tag_Tier_Value")
    THEN IF is_specified(e, "part_TinkerItem_Bits")
         THEN bits_tier(e.part_TinkerItem_Bits.s)
         ELSE IF ~IsNone(lv(e))
         THEN LET level == level_of(lv(e))
              IN  IF IsErr(level) THEN level ELSE PyInt(FloorDiv(level.n, 5))
         ELSE int_or_none(e.tag_Tier_Value)
    ELSE int_or_none(e.tag_Tier_Value)

\* A field that is unset, set on the entity itself, or inherited.
OwnOrInherited(own, inherited) ==
    {[value |-> PyNone, own |-> FALSE]}
        \cup {[value |-> PyStr(v), own |-> TRUE] : v \in own}
        \cup {[value |-> PyStr(v), own |-> FALSE] : v \in inherited}

T_0034 == <<"0", "0", "3", "4">>

T_12B == <<"1", "2", "B">>

T_0067 == <<"0", "0", "6", "7">>

TierEntities ==
    {[Blank EXCEPT
          !.tag_Tier_Value = tag.value,
          !.part_TinkerItem_Bits = bits.value,
          !.specified = (IF tag.own THEN {"tag_Tier_Value"} ELSE {})
                            \cup (IF bits.own THEN {"part_TinkerItem_Bits"} ELSE {}),
          !.stat_Level_Value = value,
          !.stat_Level_sValue = svalue] :
        tag \in OwnOrInherited({IntText(3), IntText(0)}, {IntText(2)}),
        bits \in OwnOrInherited({T_0034, T_12B, <<"5">>}, {T_0067}),
        value \in {PyNone, PyStr(IntText(4)), PyStr(IntText(23))},
        svalue \in {PyNone, PyStr(T_18_29)}}

InitTier ==
    /\ ent \in TierEntities
    /\ query = NoQuery
    /\ result = PyNone

EvalTier ==
    /\ query = NoQuery
    /\ query' = Q("tier", "", "")
    /\ result' = tier(ent)
    /\ UNCHANGED ent

NextTier == EvalTier

SpecTier == InitTier /\ [][NextTier]_vars

\* The entity's level as a number: the first number of a range.
LevelNumber ==
    IF IsIntText(lv(ent).s) THEN IntTextVal(lv(ent).s)
    ELSE IntTextVal(SplitFirst(lv(ent).s, "-"))

\* The last character of the Bits code as a number, 0 if it is no digit.
LastBit ==
    LET bits == ent.part_TinkerItem_Bits.s
    IN  IF IsDigit(bits[Len(bits)]) THEN DigitVal(bits[Len(bits)]) ELSE 0

\* The digits of the Bits code, in order.
BitsDigits == SelectSeq(ent.part_TinkerItem_Bits.s, IsDigit)

\* C20: tier is the explicit tier field when there is one; else, for an item
\* with a Bits code, the final digit of that code; else floor(level / 5) when
\* it has a level; else the inherited tier, absent when there is none.
C20_TierOfAnyBitsCode ==
    query.op = "tier" =>
        IF "tag_Tier_Value" \in ent.specified
        THEN result = py_int(ent.tag_Tier_Value)
        ELSE IF ~IsNone(ent.part_TinkerItem_Bits) /\ BitsDigits # <<>>
        THEN result = PyInt(DigitVal(BitsDigits[Len(BitsDigits)]))
        ELSE IF ~IsNone(lv(ent))
        THEN result = PyInt(FloorDiv(LevelNumber, 5))
        ELSE IF ~IsNone(ent.tag_Tier_Value)
        THEN result = py_int(ent.tag_Tier_Value)
        ELSE IsNone(result)

\* The tier by the amended order: the entity's own tier field when it has
\* one; else the last character of its own Bits code (0 when that is no
\* digit); else floor(level / 5) when it has a level; else the inherited
\* tier, absent when there is none.
TierByOwnFields ==
    IF "tag_Tier_Value" \in ent.specified
    THEN py_int(ent.tag_Tier_Value)
    ELSE IF "part_TinkerItem_Bits" \in ent.specified
    THEN PyInt(LastBit)
    ELSE IF ~IsNone(lv(ent))
    THEN PyInt(FloorDiv(LevelNumber, 5))
    ELSE IF ~IsNone(ent.tag_Tier_Value)
    THEN py_int(ent.tag_Tier_Value)
    ELSE PyNone

\* C20 amended: only a tier field and a Bits code set on the entity itself
\* come first, and a Bits code gives its last character, 0 when that is no
\* digit; an inherited Bits code is not used.
C20_TierPriority ==
    query.op = "tier" => result = TierByOwnFields

\* An item with an inherited tier, its own Bits code and a level: the Bits
\* code decides.
C20_Witness ==
    /\ query.op = "tier"
    /\ "tag_Tier_Value" \notin ent.specified /\ ~IsNone(ent.tag_Tier_Value)
    /\ "part_TinkerItem_Bits" \in ent.specified
    /\ ~IsNone(lv(ent))
    /\ result = PyInt(LastBit)
    /\ LastBit # FloorDiv(LevelNumber, 5)
    /\ result # py_int(ent.tag_Tier_Value)

-----------------------------------------------------------------------------
(* Inheritance: a child that overrides nothing *)

T_Child == <<"C", "h", "i", "l", "d">>

\* The names of a child: one that is in no table, and the names the
\* hardcoded tables know.
ChildNames ==
    [plain |-> T_Child, hardcoded |-> T_Hardcoded, zeroed |-> T_Zeroed,
     reasoned |-> T_Reasoned]

\* A child of parent that sets no field of its own: it has its own name,
\* reads every field from the parent, and specifies none itself.
Child(parent, name) == [parent EXCEPT !.name = name, !.specified = {}]

InitInherit ==
    /\ ent \in TierEntities \cup ChargeEntities
    /\ query = NoQuery
    /\ result = PyNone

EvalChildTier(n) ==
    /\ query = NoQuery
    /\ ChildNames[n] # ent.name
    /\ query' = Q("tier", "child", n)
    /\ result' = tier(Child(ent, ChildNames[n]))
    /\ UNCHANGED ent

EvalChildChargeUsed(n) ==
    /\ query = NoQuery
    /\ ChildNames[n] # ent.name
    /\ query' = Q("chargeused", "child", n)
    /\ result' = chargeused(Child(ent, ChildNames[n]))
    /\ UNCHANGED ent

EvalChildChargeFunction(n) ==
    /\ query = NoQuery
    /\ ChildNames[n] # ent.name
    /\ query' = Q("chargefunction", "child", n)
    /\ result' = chargefunction(Child(ent, ChildNames[n]))
    /\ UNCHANGED ent

NextInherit ==
    \E n \in DOMAIN ChildNames :
        EvalChildTier(n) \/ EvalChildChargeUsed(n) \/ EvalChildChargeFunction(n)

SpecInherit == InitInherit /\ [][NextInherit]_vars

\* The name of the child the property was evaluated on.
ChildName == ChildNames[query.mode]

\* chargeused of an object with the parts of ent and the given name: the
\* table's value for a name in the override table, else the sum over the
\* parts; absent when not greater than 0.
ChargeUsedNamed(name) ==
    LET total == IF name \in DOMAIN HARDCODED_CHARGE_USE
                 THEN HARDCODED_CHARGE_USE[name]
                 ELSE PositiveChargeSum(ent.part)
    IN  IF total > 0 THEN PyInt(total) ELSE PyNone

\* chargefunction of an object with the parts of ent and the given name.
ChargeFunctionNamed(name) ==
    ChargeText(PartEntries(FourLevelLabel) \o ReasonEntriesOf(name))

\* The property of the parent, as C18, C19 and C20 establish it for the
\* parents.
OnParent ==
    CASE query.op = "tier" -> TierByOwnFields
      [] query.op = "chargeused" -> ChargeUsedNamed(ent.name)
      [] query.op = "chargefunction" -> ChargeFunctionNamed(ent.name)

\* The tier of a child that sets nothing itself: floor(level / 5) when there
\* is a level, else the inherited tier field, absent when there is none.
ChildTier ==
    IF ~IsNone(lv(ent)) THEN PyInt(FloorDiv(LevelNumber, 5))
    ELSE IF ~IsNone(ent.tag_Tier_Value) THEN py_int(ent.tag_Tier_Value)
    ELSE PyNone

\* C21: a property evaluated on a child that overrides none of the fields
\* equals the property of its parent; so for tier, chargeused and
\* chargefunction.
C21_ChildEqualsParent ==
    query.attr = "child" => result = OnParent

\* C21 amended: the child's tier is floor(level / 5) when there is a level and
\* the inherited tier field when there is none; it is the parent's tier
\* whenever the parent itself specifies neither the tier nor the Bits field.
\* The child's chargeused and chargefunction are those of the inherited parts
\* under the child's own name; they are the parent's whenever neither name is
\* in the hardcoded charge-use (resp. reasons) table.
C21_ChildByOwnNameAndLevel ==
    query.attr = "child" =>
        CASE query.op = "tier" ->
                 /\ result = ChildTier
                 /\ ent.specified \cap {"tag_Tier_Value", "part_TinkerItem_Bits"} = {}
                        => result = OnParent
          [] query.op = "chargeused" ->
                 /\ result = ChargeUsedNamed(ChildName)
                 /\ {ChildName, ent.name} \cap DOMAIN HARDCODED_CHARGE_USE = {}
                        => result = OnParent
          [] query.op = "chargefunction" ->
                 /\ result = ChargeFunctionNamed(ChildName)
                 /\ {ChildName, ent.name} \cap DOMAIN CHARGE_USE_REASONS = {}
                        => result = OnParent

\* A parent with its own tier field and a level: the child's tier comes from
\* the level and differs from the parent's.
C21_Witness ==
    /\ query.op = "tier" /\ query.attr = "child"
    /\ "tag_Tier_Value" \in ent.specified
    /\ ~IsNone(lv(ent))
    /\ result = PyInt(FloorDiv(LevelNumber, 5))
    /\ result # OnParent

-----------------------------------------------------------------------------
(* Experience value and tier *)

T_XP == <<"*", "X", "P">>

T_Leader == <<"L", "e", "a", "d", "e", "r">>

\* try: level = int_or_none(level)  except ValueError: level = None
xp_level(e) ==
    LET level == int_or_none(lv(e))
    IN  IF level.tag = "ValueError" THEN PyNone ELSE level

\* The multiplier of '*XP' for the role; no role counts as 'Minion'.
xp_role_factor(e) ==
    LET r == IF IsNone(role(e)) THEN PyStr(T_Minion) ELSE role(e)
    IN  CASE r = PyStr(T_Minion) -> 10
          [] r = PyStr(T_Leader) -> 50
          [] r = PyStr(T_Hero)   -> 100
          [] OTHER               -> 25

xpvalue(e) ==
    LET level    == xp_level(e)
        xp_value == IF Truthy(e.stat_XPValue_sValue) THEN e.stat_XPValue_sValue
                    ELSE e.stat_XPValue_Value
    IN  IF IsErr(level) THEN level
        ELSE IF IsNone(level) THEN PyNone
        ELSE IF ~Truthy(xp_value) THEN PyNone
        ELSE IF xp_value = PyStr(T_XP) THEN PyInt(level.n * xp_role_factor(e))
        ELSE int_or_none(xp_value)

xptier(e) ==
    LET level == xp_level(e)
    IN  IF IsErr(level) THEN level
        ELSE IF IsNone(level) THEN PyNone
        ELSE PyInt(FloorDiv(level.n, 5))

-----------------------------------------------------------------------------
(* Entities whose level is consumed *)

\* stat_Level_sValue and stat_Level_Value.
LevelFields ==
    {[sValue |-> PyNone, Value |-> PyNone],
     [sValue |-> PyNone, Value |-> PyStr(IntText(23))],
     [sValue |-> PyNone, Value |-> PyStr(RangeText(7, 9))],
     [sValue |-> PyStr(T_18_29), Value |-> PyStr(IntText(10))]}

\* A Strength specification that tells the levels 7, 18 and 23 apart.
StrengthByLevel ==
    <<[from |-> 1, dice |-> IntText(14)], [from |-> 10, dice |-> RangeText(15, 17)],
      [from |-> 20, dice |-> T_2d6p1]>>

LevelEntities ==
    {[Blank EXCEPT
          !.part_Physics_Takeable = PyStr(T_false),
          !.part_Combat = c,
          !.part_Brain = c,
          !.stat_Level_sValue = level.sValue,
          !.stat_Level_Value = level.Value,
          !.property_Role_Value = r,
          !.stat_XPValue_sValue = xps,
          !.stat_XPValue_Value = xpv,
          !.stat = [a \in AttrNames |->
                       IF a = "Strength"
                       THEN [sValue |-> PyStr(StrengthByLevel), Value |-> PyNone,
                             Boost |-> PyNone]
                       ELSE NoStat]] :
        c \in BOOLEAN,
        level \in LevelFields,
        r \in {PyNone, PyStr(T_Minion), PyStr(T_Leader), PyStr(T_Hero), PyStr(T_Body)},
        xps \in {PyNone, PyStr(T_XP)},
        xpv \in {PyNone, PyStr(T_XP), PyStr(IntText(150))}}

InitLevel ==
    /\ ent \in LevelEntities
    /\ query = NoQuery
    /\ result = PyNone

EvalXpvalue ==
    /\ query = NoQuery
    /\ query' = Q("xpvalue", "", "")
    /\ result' = xpvalue(ent)
    /\ UNCHANGED ent

EvalXptier ==
    /\ query = NoQuery
    /\ query' = Q("xptier", "", "")
    /\ result' = xptier(ent)
    /\ UNCHANGED ent

NextLevel == EvalXpvalue \/ EvalXptier \/ EvalTier \/ EvalAttribute("Strength")

SpecLevel == InitLevel /\ [][NextLevel]_vars

-----------------------------------------------------------------------------
(* Properties of a level given as a range *)

\* The level field is a range 'N-M'.
RangedLevel ==
    /\ IsStr(lv(ent))
    /\ ~IsIntText(lv(ent).s)
    /\ IndexOf(lv(ent).s, "-") > 1

\* N, the first number of the range.
FirstOfRange == IntTextVal(SplitFirst(lv(ent).s, "-"))

\* The xp answer for level n.
XpAtLevel(n) ==
    LET xp == IF Truthy(ent.stat_XPValue_sValue) THEN ent.stat_XPValue_sValue
              ELSE ent.stat_XPValue_Value
    IN  IF ~Truthy(xp) THEN PyNone
        ELSE IF xp = PyStr(T_XP) THEN PyInt(n * xp_role_factor(ent))
        ELSE py_int(xp)

\* What attribute resolution and tier give for level n.
AtLevel(n) ==
    CASE query.op = "attribute_helper" ->
             IF Classification = ACTIVE_CHAR
             THEN PyStr(sValue(ent.stat[query.attr].sValue.s, n)) ELSE PyNone
      [] query.op = "tier" -> PyInt(FloorDiv(n, 5))

\* C22: with a level 'N-M', attribute resolution of a level-scaled
\* value, tier, xpvalue and xptier all work with N as the level, and none
\* raises an error.
C22_FirstOfRangeEverywhere ==
    (RangedLevel /\ query.op # "none") =>
        CASE query.op = "xpvalue" -> result = XpAtLevel(FirstOfRange)
          [] query.op = "xptier"  -> result = PyInt(FloorDiv(FirstOfRange, 5))
          [] OTHER                -> result = AtLevel(FirstOfRange)

-----------------------------------------------------------------------------
(* Raw attribute values of every dice form, and malformed ones *)

MaxDiceCount == 2

MaxDiceSides == 4

MaxDiceConst == 2

\* 'AdB', 'AdB+C', 'AdB-C'
DieText(A, B, C) ==
    NatText(A) \o <<"d">> \o NatText(B)
        \o (IF C = 0 THEN <<>>
            ELSE IF C > 0 THEN <<"+">> \o NatText(C)
            ELSE <<"-">> \o NatText(0 - C))

DieParams == [A : 1..MaxDiceCount, B : 1..MaxDiceSides, C : (0 - MaxDiceConst)..MaxDiceConst]

RangeParams == {r \in [N : 14..StatHi, M : 14..(StatHi + MaxSpread)] : r.N <= r.M}

FlatParams == 14..StatHi

ValidDiceTexts ==
    {DieText(d.A, d.B, d.C) : d \in DieParams}
        \cup {RangeText(r.N, r.M) : r \in RangeParams}
        \cup {IntText(k) : k \in FlatParams}

\* Texts that are no dice expression.
MalformedDiceTexts ==
    {<<"x">>, <<"3", "-">>, <<"2", "d">>, <<"1", "7", "-", "1", "5">>, <<"0", "d", "4">>}

\* Active characters whose Strength, Agility and Willpower have the raw value
\* text.
DiceEntities ==
    {[Character(TRUE) EXCEPT
          !.stat = [a \in AttrNames |->
                       IF a = "Hitpoints" THEN NoStat
                       ELSE [sValue |-> PyNone, Value |-> PyStr(text), Boost |-> PyNone]]] :
        text \in ValidDiceTexts \cup MalformedDiceTexts}

InitDice ==
    /\ ent \in DiceEntities
    /\ query = NoQuery
    /\ result = PyNone

NextDice ==
    \/ \E mode \in Modes : EvalMinMaxAvg("Strength", mode)
    \/ \E mode \in Modes : EvalMod("Strength", mode)
    \/ EvalDv
    \/ EvalMa
    \/ EvalMarange

SpecDice == InitDice /\ [][NextDice]_vars

-----------------------------------------------------------------------------
(* Properties of dice evaluation *)

\* The raw value text of the attribute the query is about.
RawText ==
    ent.stat[IF query.attr = "" THEN ModifierAttr ELSE query.attr].Value.s

\* The properties that evaluate the raw value as dice.
DiceQuery ==
    query.op \in {"attribute_helper_min_max_or_avg", "attribute_helper_mod",
                  "dv", "ma", "marange"}

\* C23: when the raw value of the attribute is no dice expression, its
\* min/max/avg and modifier, and dv, ma and marange built on it, are absent;
\* no error leaves the property.
C23_MalformedIsAbsent ==
    (DiceQuery /\ RawText \in MalformedDiceTexts) => IsNone(result)

\* The statmode mode of a bag with minimum lo, maximum hi and twice the
\* average avg2: the average is cut to an integer toward zero.
Statmode(mode, lo, hi, avg2) ==
    CASE mode = "min" -> lo
      [] mode = "max" -> hi
      [] mode = "avg" -> IF avg2 >= 0 THEN avg2 \div 2 ELSE 0 - ((0 - avg2) \div 2)

\* min <= avg <= max, and the statmode is the one computed from them.
OrderedStatmode(lo, hi, avg2) ==
    /\ 2 * lo <= avg2 /\ avg2 <= 2 * hi
    /\ result = PyInt(Statmode(query.mode, lo, hi, avg2))
    /\ Statmode("min", lo, hi, avg2) <= Statmode("avg", lo, hi, avg2)
    /\ Statmode("avg", lo, hi, avg2) <= Statmode("max", lo, hi, avg2)

\* C24: a valid dice expression has min <= avg <= max, with min = A+C,
\* max = A*B+C, avg = A*(B+1)/2+C for 'AdB+C', min = N, max = M,
\* avg = (N+M)/2 for 'N-M', and all three equal for a flat integer; so the
\* unboosted min, avg and max statmodes of an attribute are ordered.
C24_DiceOrdered ==
    query.op = "attribute_helper_min_max_or_avg" =>
        /\ \A d \in DieParams :
               RawText = DieText(d.A, d.B, d.C) =>
                   OrderedStatmode(d.A + d.C, d.A * d.B + d.C, d.A * (d.B + 1) + 2 * d.C)
        /\ \A r \in RangeParams :
               RawText = RangeText(r.N, r.M) => OrderedStatmode(r.N, r.M, r.N + r.M)
        /\ \A k \in FlatParams :
               RawText = IntText(k) => OrderedStatmode(k, k, 2 * k)

\* The average of '1d2-2' is -0.5: its statmode is 0, between -1 and 0.
C24_Witness ==
    /\ query = Q("attribute_helper_min_max_or_avg", "Strength", "avg")
    /\ RawText = DieText(1, 2, 0 - 2)
    /\ result = PyInt(0)

-----------------------------------------------------------------------------
(* Order of the boosted statmodes *)

\* The result lies between lo and hi.
ResultWithin(lo, hi) == IsInt(result) /\ lo <= result.n /\ result.n <= hi

\* The minimum and maximum statmodes of the queried attribute.
ReturnedMin == attribute_helper_min_max_or_avg(ent, query.attr, "min").n

ReturnedMax == attribute_helper_min_max_or_avg(ent, query.attr, "max").n

\* C28 as stated: whenever a boost factor applies, boostedMin <= boostedAvg <=
\* boostedMax, for every raw range and every Boost tier, also for the tiers
\* whose factor 0.20 * tier + 1.0 is zero or negative.
C28_BoostedOrderedAlways ==
    BoostedQuery => (ReturnedMin <= ReturnedMax /\ ResultWithin(ReturnedMin, ReturnedMax))

\* C28 amended: the boosted statmodes are ordered min <= avg <= max as long as
\* the factor is not negative, that is for effective tiers >= -5; for lower
\* tiers the factor is negative and the order is reversed:
\* boostedMax <= boostedAvg <= boostedMin.
C28_BoostedOrderedBySign ==
    BoostedQuery =>
        IF Factor20 >= 0
        THEN ReturnedMin <= ReturnedMax /\ ResultWithin(ReturnedMin, ReturnedMax)
        ELSE ReturnedMax <= ReturnedMin /\ ResultWithin(ReturnedMax, ReturnedMin)

\* A tier below -5 on a raw range: the boosted maximum is below the boosted
\* minimum.
C28_Witness ==
    /\ BoostedQuery
    /\ query.mode = "avg"
    /\ EffectiveTier < 0 - 5
    /\ RawDice.min < RawDice.max
    /\ ReturnedMax < ReturnedMin
    /\ ResultWithin(ReturnedMax, ReturnedMin)

-----------------------------------------------------------------------------
(* Classification of entities *)

T_FALSE == <<"F", "A", "L", "S", "E">>
T_zero == <<"0">>

TakeableValues ==
    {PyNone, PyStr(T_false), PyStr(T_False), PyStr(T_true), PyStr(T_FALSE),
     PyStr(T_zero), PyStr(<<>>)}

ClassEntities ==
    {[WithLevel(Blank, lvl) EXCEPT !.part_Physics_Takeable = tk,
                                   !.part_Gas = gas,
                                   !.part_Combat = combat,
                                   !.part_Brain = brain] :
        lvl \in BOOLEAN, tk \in TakeableValues,
        gas \in BOOLEAN, combat \in BOOLEAN, brain \in BOOLEAN}

InitClass ==
    /\ ent \in ClassEntities
    /\ query = NoQuery
    /\ result = PyNone

EvalClassification ==
    /\ query = NoQuery
    /\ query' = Q("active_or_inactive_character", "", "")
    /\ result' = PyInt(active_or_inactive_character(ent))
    /\ UNCHANGED ent

NextClass == EvalClassification

SpecClass == InitClass /\ [][NextClass]_vars

\* Takeable is 'false' or 'False' and there is no Gas part.
FixedAndSolid ==
    /\ ent.part_Physics_Takeable \in {PyStr(T_false), PyStr(T_False)}
    /\ ~ent.part_Gas

\* C27: the classification is 1 exactly when Takeable is 'false'/'False', there
\* is no Gas part and both Combat and Brain are present, 2 exactly when Takeable
\* is 'false'/'False', there is no Gas part and Combat or Brain is missing, and
\* 0 in every other case.
C27_ThreeWayPartition ==
    query.op = "active_or_inactive_character" =>
        /\ result \in {PyInt(0), PyInt(1), PyInt(2)}
        /\ result = PyInt(1) <=>
               (FixedAndSolid /\ ent.part_Combat /\ ent.part_Brain)
        /\ result = PyInt(2) <=>
               (FixedAndSolid /\ ~(ent.part_Combat /\ ent.part_Brain))
        /\ result = PyInt(0) <=> ~FixedAndSolid

\* An entity that is not takeable, no gas, and has a Brain but no Combat part
\* is classified inactive.
C27_Witness ==
    /\ query.op = "active_or_inactive_character"
    /\ ent.part_Physics_Takeable = PyStr(T_False)
    /\ ~ent.part_Gas
    /\ ent.part_Brain /\ ~ent.part_Combat
    /\ result = PyInt(INACTIVE_CHAR)

-----------------------------------------------------------------------------
(* The interval marange denotes *)

\* The text 'X+1dY' read back: X and Y, or the single number N as N-1 and 1.
IsDiceRange(cs) == IsSubstring(T_plus1d, cs)

RangeX(cs) ==
    IF IsDiceRange(cs) THEN IntTextVal(SplitFirst(cs, "+")) ELSE IntTextVal(cs) - 1

RangeY(cs) ==
    IF IsDiceRange(cs) THEN IntTextVal(SubSeq(cs, IndexOf(cs, "d") + 1, Len(cs))) ELSE 1

DenotedMin(cs) == RangeX(cs) + 1

DenotedMax(cs) == RangeX(cs) + RangeY(cs)

MinModifier == attribute_helper_mod(ent, "Willpower", "min")

MaxModifier == attribute_helper_mod(ent, "Willpower", "max")

\* base = 4 + MA stat.
MaBase == 4 + (IF IsNone(ent.stat_MA_Value) THEN 0 ELSE py_int(ent.stat_MA_Value).n)

\* An unshielded active character with a resolvable Willpower.
UnshieldedWithWillpower ==
    /\ Classification = ACTIVE_CHAR
    /\ ~has_shield_mark(ent)
    /\ IsInt(MinModifier) /\ IsInt(MaxModifier)

\* The text of marange denotes [lo, hi]: a single number when lo = hi,
\* otherwise 'X+1dY' with X+1 = lo and X+Y = hi.
DenotesInterval(lo, hi) ==
    /\ IsStr(result)
    /\ IsDiceRange(result.s) <=> (lo # hi)
    /\ DenotedMin(result.s) = lo
    /\ DenotedMax(result.s) = hi

\* C29 as stated: for an unshielded active character with a resolvable
\* Willpower, marange denotes exactly [base + minmod, base + maxmod] and the
\* value of ma lies inside that interval.
C29_MaInsideRangeAlways ==
    UnshieldedWithWillpower =>
        /\ query.op = "marange" =>
               DenotesInterval(MaBase + MinModifier.n, MaBase + MaxModifier.n)
        /\ query.op = "ma" =>
               ResultWithin(MaBase + MinModifier.n, MaBase + MaxModifier.n)

\* C29 amended: marange is built from base + minmod and base + maxmod as
\* stated, and ma lies between the two; the interval is a proper one, with ma
\* inside, when minmod <= maxmod, which holds unless the Willpower boost factor
\* is negative. With a negative factor maxmod < minmod, the text is 'X+1dY'
\* with Y <= 0 and ma lies in [base + maxmod, base + minmod].
C29_MaInsideRangeUnlessReversed ==
    UnshieldedWithWillpower =>
        /\ query.op = "marange" =>
               DenotesInterval(MaBase + MinModifier.n, MaBase + MaxModifier.n)
        /\ query.op = "ma" =>
               IF MinModifier.n <= MaxModifier.n
               THEN ResultWithin(MaBase + MinModifier.n, MaBase + MaxModifier.n)
               ELSE ResultWithin(MaBase + MaxModifier.n, MaBase + MinModifier.n)
        /\ MaxModifier.n < MinModifier.n =>
               /\ attribute_boost_factor(ent, "Willpower").tag = "float"
               /\ attribute_boost_factor(ent, "Willpower").n < 0

\* A Willpower range with different modifiers: marange is a dice text.
C29_Witness ==
    /\ UnshieldedWithWillpower
    /\ query.op = "marange"
    /\ MinModifier.n < MaxModifier.n
    /\ Truthy(ent.stat_MA_Value)
    /\ IsStr(result) /\ IsDiceRange(result.s)
    /\ DenotedMin(result.s) < DenotedMax(result.s)

-----------------------------------------------------------------------------
(* complexity *)

T_Mod == <<"M", "o", "d">>
T_ModPlain == <<"M", "o", "d", "P", "l", "a", "i", "n">>
T_ModGated == <<"M", "o", "d", "G", "a", "t", "e", "d">>
T_ModUnlisted == <<"M", "o", "d", "U", "n", "l", "i", "s", "t", "e", "d">>
T_Physics == <<"P", "h", "y", "s", "i", "c", "s">>

\* hagadias.constants.ITEM_MOD_PROPS: mod name -> complexity and whether the
\* mod counts only on an item that is already complex.
ITEM_MOD_PROPS ==
    (T_ModPlain :> [complexity |-> 1, ifcomplex |-> FALSE]) @@
    (T_ModGated :> [complexity |-> 2, ifcomplex |-> TRUE])

\* True and False of Python are the integers 1 and 0.
PyBool(b) == PyInt(IF b THEN 1 ELSE 0)

canbuild(e) ==
    IF e.part_TinkerItem_CanBuild = PyStr(T_true) THEN PyBool(TRUE)
    ELSE IF e.part_TinkerItem_CanDisassemble = PyStr(T_true) THEN PyBool(FALSE)
    ELSE PyNone

\* s.split(c)
RECURSIVE Split(_, _)
Split(cs, c) ==
    IF IndexOf(cs, c) = 0 THEN <<cs>>
    ELSE <<SubSeq(cs, 1, IndexOf(cs, c) - 1)>>
             \o Split(SubSeq(cs, IndexOf(cs, c) + 1, Len(cs)), c)

\* s.startswith(prefix)
StartsWith(cs, prefix) ==
    Len(cs) >= Len(prefix) /\ SubSeq(cs, 1, Len(prefix)) = prefix

\* Variant of complexity_add_mod: a mod that needs a complex item is never
\* skipped.
complexity_add_mod_ungated(val, mod) ==
    IF mod \in DOMAIN ITEM_MOD_PROPS
    THEN val + ITEM_MOD_PROPS[mod].complexity
    ELSE val

\* One pass of either loop body of complexity.
complexity_add_mod(val, mod) ==
    IF mod \in DOMAIN ITEM_MOD_PROPS
    THEN IF ITEM_MOD_PROPS[mod].ifcomplex /\ val <= 0
         THEN val
         ELSE val + ITEM_MOD_PROPS[mod].complexity
    ELSE val

RECURSIVE complexity_add_mods(_, _)
complexity_add_mods(val, mods) ==
    IF mods = <<>> THEN val
    ELSE complexity_add_mods(complexity_add_mod(val, Head(mods)), Tail(mods))

IsModPart(p) == StartsWith(p.name, T_Mod)

PartNames(ps) == [i \in 1..Len(ps) |-> ps[i].name]

\* Variant of complexity: the parts are counted before the AddMod list.
complexity_parts_first(e) ==
    LET start == IF IsNone(e.part_Examiner_Complexity) THEN PyInt(0)
                 ELSE py_int(e.part_Examiner_Complexity)
    IN  IF IsErr(start) THEN start
        ELSE LET parts == complexity_add_mods(start.n,
                              PartNames(SelectSeq(e.part, IsModPart)))
                 val == IF IsNone(e.part_AddMod_Mods) THEN parts
                        ELSE complexity_add_mods(parts, Split(e.part_AddMod_Mods.s, ","))
             IN  IF val > 0 \/ Truthy(canbuild(e)) THEN PyInt(val) ELSE PyNone

complexity(e) ==
    LET start == IF IsNone(e.part_Examiner_Complexity) THEN PyInt(0)
                 ELSE py_int(e.part_Examiner_Complexity)
    IN  IF IsErr(start) THEN start
        ELSE LET added == IF IsNone(e.part_AddMod_Mods) THEN start.n
                          ELSE complexity_add_mods(start.n,
                                   Split(e.part_AddMod_Mods.s, ","))
                 val == complexity_add_mods(added,
                            PartNames(SelectSeq(e.part, IsModPart)))
             IN  IF val > 0 \/ Truthy(canbuild(e)) THEN PyInt(val) ELSE PyNone

MaxModParts == 2

ModParts ==
    {[name |-> n, ChargeUse |-> PyNone, NameForStatus |-> PyNone] :
        n \in {T_ModPlain, T_ModGated, T_ModUnlisted, T_Physics}}

AddModTexts ==
    {PyNone, PyStr(<<>>), PyStr(T_ModPlain), PyStr(T_ModGated), PyStr(T_ModUnlisted),
     PyStr(T_ModGated \o <<",">> \o T_ModPlain),
     PyStr(T_ModPlain \o <<",">> \o T_ModGated)}

\* self.part: a mapping, each part name at most once.
ModPartLists ==
    {q \in DistinctSeqs(ModParts, MaxModParts) :
        \A i, j \in 1..Len(q) : q[i].name = q[j].name => i = j}

ComplexityEntities ==
    {[Blank EXCEPT !.part_Examiner_Complexity = base,
                   !.part_AddMod_Mods = addmod,
                   !.part = parts,
                   !.part_TinkerItem_CanBuild = build,
                   !.part_TinkerItem_CanDisassemble = disassemble] :
        base \in {PyNone, PyStr(IntText(0)), PyStr(IntText(2)), PyStr(IntText(0 - 1))},
        addmod \in AddModTexts,
        parts \in ModPartLists,
        build \in {PyNone, PyStr(T_true), PyStr(T_false)},
        disassemble \in {PyNone, PyStr(T_true)}}

InitComplexity ==
    /\ ent \in ComplexityEntities
    /\ query = NoQuery
    /\ result = PyNone

EvalComplexity ==
    /\ query = NoQuery
    /\ query' = Q("complexity", "", "")
    /\ result' = complexity(ent)
    /\ UNCHANGED ent

EvalCanbuild ==
    /\ query = NoQuery
    /\ query' = Q("canbuild", "", "")
    /\ result' = canbuild(ent)
    /\ UNCHANGED ent

NextComplexity == EvalComplexity \/ EvalCanbuild

SpecComplexity == InitComplexity /\ [][NextComplexity]_vars

\* The mods of the entity in the order they are counted: the AddMod list, then
\* the parts whose name starts with 'Mod'; only those in the mod table.
ListedMods ==
    IF IsNone(ent.part_AddMod_Mods) THEN <<>> ELSE Split(ent.part_AddMod_Mods.s, ",")

ModPartNames == PartNames(SelectSeq(ent.part, IsModPart))

InTable(mod) == mod \in DOMAIN ITEM_MOD_PROPS

CountedMods == SelectSeq(ListedMods \o ModPartNames, InTable)

BaseComplexity ==
    IF IsNone(ent.part_Examiner_Complexity) THEN 0
    ELSE IntTextVal(ent.part_Examiner_Complexity.s)

\* The running value after the first k counted mods.
RECURSIVE RunningComplexity(_)
RunningComplexity(k) ==
    IF k = 0 THEN BaseComplexity
    ELSE LET before == RunningComplexity(k - 1)
             props  == ITEM_MOD_PROPS[CountedMods[k]]
         IN  IF props.ifcomplex /\ ~(before > 0) THEN before
             ELSE before + props.complexity

CanBeBuilt == ent.part_TinkerItem_CanBuild = PyStr(T_true)

\* C25: complexity starts from the Examiner complexity (0 if unset), adds for
\* each AddMod mod and then each 'Mod' part that is in the table the mod's
\* complexity unless the mod needs a complex item and the running value is not
\* above 0, and is returned only when above 0 or when the item can be built.
C25_Complexity ==
    query.op = "complexity" =>
        LET val == RunningComplexity(Len(CountedMods))
        IN  IF val > 0 \/ CanBeBuilt THEN result = PyInt(val) ELSE IsNone(result)

\* A gated mod in AddMod is skipped on a base of 0 and a plain mod part then
\* makes the item complex.
C25_Witness ==
    /\ query.op = "complexity"
    /\ BaseComplexity = 0
    /\ ListedMods = <<T_ModGated>>
    /\ ModPartNames = <<T_ModPlain>>
    /\ result = PyInt(1)

-----------------------------------------------------------------------------
(* projectile_object *)

\* A part that is present: a non-empty mapping of its attributes.
PyDict == [tag |-> "dict", n |-> 1, s |-> <<>>]

\* A reference to the entity of that name.
PyObject(name) == [tag |-> "object", n |-> 0, s |-> name]

IsObject(x) == x.tag = "object"

T_ProjectileSlug == <<"P", "r", "o", "j", "e", "c", "t", "i", "l", "e", "S", "l", "u", "g">>
T_ProjectileBeam == <<"P", "r", "o", "j", "e", "c", "t", "i", "l", "e", "B", "e", "a", "m">>
T_ProjectileGas == <<"P", "r", "o", "j", "e", "c", "t", "i", "l", "e", "G", "a", "s">>
T_Dangling == <<"D", "a", "n", "g", "l", "i", "n", "g">>
T_VorpalLight == <<"V", "o", "r", "p", "a", "l", " ", "L", "i", "g", "h", "t">>
T_AcidGas == <<"A", "c", "i", "d", "G", "a", "s">>
T_4d20 == <<"4", "d", "2", "0">>

ProjectileNames == {T_ProjectileSlug, T_ProjectileBeam, T_ProjectileGas}

\* self.qindex restricted to the projectiles.
projectile_index ==
    [name \in ProjectileNames |->
        CASE name = T_ProjectileSlug ->
                 [Blank EXCEPT !.name = name]
          [] name = T_ProjectileBeam ->
                 [Blank EXCEPT
                     !.name = name,
                     !.specified = {"part_OmniphaseProjectile"},
                     !.field["part_Projectile_Attributes"] = PyStr(T_VorpalLight),
                     !.field["part_Projectile_BaseDamage"] = PyStr(T_2d6p1),
                     !.field["part_Projectile_BasePenetration"] = PyStr(IntText(3)),
                     !.field["part_Projectile_PenetrateCreatures"] = PyStr(T_true),
                     !.field["part_TemperatureOnHit_Amount"] = PyStr(T_4d20),
                     !.field["part_TreatAsSolid_RealityDistortionBased"] = PyStr(T_true)]
          [] name = T_ProjectileGas ->
                 [Blank EXCEPT
                     !.name = name,
                     !.specified = {"tag_Omniphase"},
                     !.field["part_Projectile_BaseDamage"] = PyStr(<<>>),
                     !.field["part_GasOnHit_Blueprint"] = PyStr(T_AcidGas),
                     !.field["part_TreatAsSolid_RealityDistortionBased"] = PyStr(T_false),
                     !.field["part_VampiricWeapon_RealityDistortionBased"] = PyStr(T_true)]]

\* The test that opens the loop of projectile_object.
projectile_gate(e) ==
    ~IsNone(e.field["part_MissileWeapon"]) \/ is_specified(e, "part_AmmoArrow")

\* attr is not None and attr != ''
LoaderNamesProjectile(attr) == ~IsNone(attr) /\ attr # PyStr(<<>>)

\* Variant of projectile_loader: the last loader that names a projectile.
projectile_loader_last(e) ==
    IF \E i \in 1..Len(LoaderFields) : LoaderNamesProjectile(e.field[LoaderFields[i]])
    THEN CHOOSE i \in 1..Len(LoaderFields) :
             /\ LoaderNamesProjectile(e.field[LoaderFields[i]])
             /\ \A j \in (i + 1)..Len(LoaderFields) :
                    ~LoaderNamesProjectile(e.field[LoaderFields[j]])
    ELSE 0

\* The index of the loader at which the loop returns, 0 if it runs to its end.
projectile_loader(e) ==
    IF \E i \in 1..Len(LoaderFields) : LoaderNamesProjectile(e.field[LoaderFields[i]])
    THEN CHOOSE i \in 1..Len(LoaderFields) :
             /\ LoaderNamesProjectile(e.field[LoaderFields[i]])
             /\ \A j \in 1..(i - 1) : ~LoaderNamesProjectile(e.field[LoaderFields[j]])
    ELSE 0

\* self.qindex[attr], then the item or getattr(item, part_attr, None).
projectile_lookup(attr, part_attr) ==
    IF attr.s \notin DOMAIN projectile_index THEN Raise("KeyError")
    ELSE IF part_attr # "" THEN projectile_index[attr.s].field[part_attr]
    ELSE PyObject(attr.s)

projectile_object(e, part_attr) ==
    IF projectile_gate(e) /\ projectile_loader(e) # 0
    THEN projectile_lookup(e.field[LoaderFields[projectile_loader(e)]], part_attr)
    ELSE PyNone

-----------------------------------------------------------------------------
(* Properties read from the projectile *)

T_CheckRealityDistortionUsability == <<"C", "h", "e", "c", "k", "R", "e", "a", "l", "i", "t", "y", "D", "i", "s", "t", "o", "r", "t", "i", "o", "n", "U", "s", "a", "b", "i", "l", "i", "t", "y">>

\* A list of texts.
PyList(texts) == [tag |-> "list", n |-> 0, s |-> texts]

\* The word collected so far, if there is one.
Word(word) == IF word = <<>> THEN <<>> ELSE <<word>>

RECURSIVE SplitWordsFrom(_, _)
SplitWordsFrom(cs, word) ==
    IF cs = <<>> THEN Word(word)
    ELSE IF Head(cs) \in StrWhiteSpace
         THEN Word(word) \o SplitWordsFrom(Tail(cs), <<>>)
    ELSE SplitWordsFrom(Tail(cs), Append(word, Head(cs)))

\* s.split(): the words between runs of white space.
SplitWords(cs) == SplitWordsFrom(cs, <<>>)

\* self.inherits_from('MeleeWeapon') or self.is_specified('part_MeleeWeapon')
is_melee(e) == e.inherits_MeleeWeapon \/ is_specified(e, "part_MeleeWeapon")

\* val before the projectile is asked.
damage_own(e) ==
    IF ~IsNone(e.field["part_ThrownWeapon"])
    THEN IF is_specified(e, "part_GeomagneticDisc")
         THEN e.field["part_GeomagneticDisc_Damage"]
         ELSE IF IsNone(e.field["part_ThrownWeapon_Damage"]) THEN PyInt(1)
         ELSE e.field["part_ThrownWeapon_Damage"]
    ELSE IF Truthy(e.field["part_Gaslight"]) THEN e.field["part_Gaslight_ChargedDamage"]
    ELSE IF is_melee(e) THEN e.field["part_MeleeWeapon_BaseDamage"]
    ELSE PyNone

damage_with(e, projectiledamage) ==
    IF IsErr(projectiledamage) THEN projectiledamage
    ELSE IF Truthy(projectiledamage) THEN projectiledamage
    ELSE damage_own(e)

damage(e) == damage_with(e, projectile_object(e, "part_Projectile_BaseDamage"))

\* x + 4 of an int, errors passed on.
Plus4(x) == IF IsErr(x) THEN x ELSE PyInt(x.n + 4)

pv_melee(e) ==
    IF is_melee(e)
    THEN IF ~IsNone(e.field["part_Gaslight_ChargedPenetrationBonus"])
         THEN Plus4(py_int(e.field["part_Gaslight_ChargedPenetrationBonus"]))
         ELSE IF ~IsNone(e.field["part_MeleeWeapon_PenBonus"])
         THEN Plus4(py_int(e.field["part_MeleeWeapon_PenBonus"]))
         ELSE PyInt(4)
    ELSE PyNone

pv_thrown(e) ==
    IF IsNone(int_or_none(e.field["part_ThrownWeapon_Penetration"])) THEN PyInt(1 + 4)
    ELSE Plus4(int_or_none(e.field["part_ThrownWeapon_Penetration"]))

\* Variant of pv_with: the projectile's penetration is converted without the
\* test for None.
pv_with_unguarded(e, melee, missilepv) ==
    IF IsErr(melee) THEN melee
    ELSE IF IsErr(missilepv) THEN missilepv
    ELSE IF IsErr(py_int(missilepv)) THEN py_int(missilepv)
    ELSE IF ~IsNone(e.field["part_ThrownWeapon"]) THEN pv_thrown(e)
    ELSE Plus4(py_int(missilepv))

pv_with(e, melee, missilepv) ==
    IF IsErr(melee) THEN melee
    ELSE IF IsErr(missilepv) THEN missilepv
    ELSE IF ~IsNone(missilepv) /\ IsErr(py_int(missilepv)) THEN py_int(missilepv)
    ELSE IF ~IsNone(e.field["part_ThrownWeapon"]) THEN pv_thrown(e)
    ELSE IF ~IsNone(missilepv) THEN Plus4(py_int(missilepv))
    ELSE melee

pv(e) == pv_with(e, pv_melee(e), projectile_object(e, "part_Projectile_BasePenetration"))

gasemitted(e) == projectile_object(e, "part_GasOnHit_Blueprint")

ammodamagetypes_of(attributes) ==
    IF IsErr(attributes) THEN attributes
    ELSE IF ~IsNone(attributes) THEN PyList(SplitWords(attributes.s))
    ELSE PyNone

ammodamagetypes(e) == ammodamagetypes_of(projectile_object(e, "part_Projectile_Attributes"))

penetratingammo_of(value) ==
    IF IsErr(value) THEN value
    ELSE IF ~IsNone(value) THEN PyBool(TRUE)
    ELSE PyNone

penetratingammo(e) ==
    penetratingammo_of(projectile_object(e, "part_Projectile_PenetrateCreatures"))

\* var or self.part_TemperatureOnHit_Amount
temponhit_of(e, var) ==
    IF IsErr(var) THEN var
    ELSE IF Truthy(var) THEN var
    ELSE e.field["part_TemperatureOnHit_Amount"]

temponhit(e) == temponhit_of(e, projectile_object(e, "part_TemperatureOnHit_Amount"))

\* The tests of realitydistortionbased on the entity itself.
realitydistortionbased_own(e) ==
    IF \/ e.field["part_MechanicalWings_IsRealityDistortionBased"] = PyStr(T_true)
       \/ e.field["part_DeploymentGrenade_UsabilityEvent"]
              = PyStr(T_CheckRealityDistortionUsability)
       \/ ~IsNone(e.field["part_Displacer"])
       \/ ~IsNone(e.field["part_SpaceTimeVortex"])
       \/ ~IsNone(e.field["part_EngulfingClones"])
       \/ ~IsNone(e.field["part_GreaterVoider"])
    THEN PyBool(TRUE)
    ELSE PyNone

realitydistortionbased_of(e, projectile) ==
    IF IsErr(projectile) THEN projectile
    ELSE IF /\ ~IsNone(projectile)
            /\ \/ projectile_index[projectile.s]
                      .field["part_TreatAsSolid_RealityDistortionBased"] = PyStr(T_true)
               \/ projectile_index[projectile.s]
                      .field["part_VampiricWeapon_RealityDistortionBased"] = PyStr(T_true)
    THEN PyBool(TRUE)
    ELSE realitydistortionbased_own(e)

realitydistortionbased(e) == realitydistortionbased_of(e, projectile_object(e, ""))

\* projectile.is_specified on None raises AttributeError.
omniphaseprojectile_of(projectile) ==
    IF IsErr(projectile) THEN projectile
    ELSE IF IsNone(projectile) THEN Raise("AttributeError")
    ELSE IF \/ is_specified(projectile_index[projectile.s], "part_OmniphaseProjectile")
            \/ is_specified(projectile_index[projectile.s], "tag_Omniphase")
    THEN PyBool(TRUE)
    ELSE PyNone

omniphaseprojectile(e) == omniphaseprojectile_of(projectile_object(e, ""))

\* QudObject.__getattr__(name): what the entity holds under the name, None for
\* a name it does not hold.  Every read of an unset field in the properties
\* goes this way (`self.part_Gas is None`, `if self.mutation:`).
qudobject_getattr(e, name) ==
    IF name \in DOMAIN e.field THEN e.field[name] ELSE PyNone

\* Reading the property `name` of an entity, as `obj.name` does: the value the
\* getter returns, or the exception it raises; an AttributeError that leaves
\* the getter makes Python call __getattr__ of the class with the name of the
\* property, and the read gives what that returns.
property_access(e, name, raw) ==
    IF raw = Raise("AttributeError") THEN qudobject_getattr(e, name) ELSE raw

-----------------------------------------------------------------------------
(* Entities with loaders and weapons *)

MaxLoaders == 2

LoaderValues ==
    {PyStr(<<>>), PyStr(T_Dangling)} \cup {PyStr(name) : name \in ProjectileNames}

\* Settings of the five loader fields with at most MaxLoaders of them set.
LoaderSettings ==
    {f \in [1..Len(LoaderFields) -> LoaderValues \cup {PyNone}] :
        Cardinality({i \in 1..Len(LoaderFields) : ~IsNone(f[i])}) <= MaxLoaders}

WithLoaders(e, f) ==
    [e EXCEPT !.field = [k \in WeaponFields |->
        IF \E i \in 1..Len(LoaderFields) : LoaderFields[i] = k
        THEN f[CHOOSE i \in 1..Len(LoaderFields) : LoaderFields[i] = k]
        ELSE e.field[k]]]

LoaderEntities ==
    {[WithLoaders(Blank, f) EXCEPT
          !.field["part_MissileWeapon"] = missile,
          !.specified = IF arrow THEN {"part_AmmoArrow"} ELSE {}] :
        f \in LoaderSettings, missile \in {PyNone, PyDict}, arrow \in BOOLEAN}

\* What an entity is besides a missile weapon.
WeaponProfiles ==
    {Blank,
     [Blank EXCEPT !.inherits_MeleeWeapon = TRUE,
                   !.field["part_MeleeWeapon_BaseDamage"] = PyStr(T_2d6p1),
                   !.field["part_MeleeWeapon_PenBonus"] = PyStr(IntText(2))],
     [Blank EXCEPT !.specified = {"part_MeleeWeapon"}],
     [Blank EXCEPT !.inherits_MeleeWeapon = TRUE,
                   !.field["part_Gaslight"] = PyDict,
                   !.field["part_Gaslight_ChargedDamage"] = PyStr(T_3d4m1),
                   !.field["part_Gaslight_ChargedPenetrationBonus"] = PyStr(IntText(1)),
                   !.field["part_MeleeWeapon_BaseDamage"] = PyStr(T_2d6p1),
                   !.field["part_MeleeWeapon_PenBonus"] = PyStr(IntText(2))],
     [Blank EXCEPT !.field["part_ThrownWeapon"] = PyDict],
     [Blank EXCEPT !.field["part_ThrownWeapon"] = PyDict,
                   !.field["part_ThrownWeapon_Damage"] = PyStr(T_3d4m1),
                   !.field["part_ThrownWeapon_Penetration"] = PyStr(IntText(3))],
     [Blank EXCEPT !.specified = {"part_GeomagneticDisc"},
                   !.field["part_ThrownWeapon"] = PyDict,
                   !.field["part_GeomagneticDisc_Damage"] = PyStr(T_2d6p1)],
     [Blank EXCEPT !.field["part_MechanicalWings_IsRealityDistortionBased"] = PyStr(T_true)],
     [Blank EXCEPT !.field["part_MechanicalWings_IsRealityDistortionBased"] = PyStr(T_false)],
     [Blank EXCEPT !.field["part_DeploymentGrenade_UsabilityEvent"]
                       = PyStr(T_CheckRealityDistortionUsability)],
     [Blank EXCEPT !.field["part_Displacer"] = PyDict],
     [Blank EXCEPT !.field["part_SpaceTimeVortex"] = PyDict],
     [Blank EXCEPT !.field["part_EngulfingClones"] = PyDict],
     [Blank EXCEPT !.field["part_GreaterVoider"] = PyDict],
     [Blank EXCEPT !.field["part_TemperatureOnHit_Amount"] = PyStr(T_4d20)]}

\* How such an entity is loaded: MissileWeapon part, own AmmoArrow part, the
\* loader that is set and the projectile it names.
Loadings ==
    {[missile |-> PyNone, arrow |-> FALSE, loader |-> 0, names |-> PyNone],
     [missile |-> PyNone, arrow |-> FALSE, loader |-> 3, names |-> PyStr(T_ProjectileBeam)],
     [missile |-> PyDict, arrow |-> FALSE, loader |-> 0, names |-> PyNone],
     [missile |-> PyDict, arrow |-> FALSE, loader |-> 1, names |-> PyStr(T_ProjectileSlug)],
     [missile |-> PyDict, arrow |-> FALSE, loader |-> 3, names |-> PyStr(T_ProjectileBeam)],
     [missile |-> PyDict, arrow |-> FALSE, loader |-> 4, names |-> PyStr(T_ProjectileGas)],
     [missile |-> PyNone, arrow |-> TRUE,  loader |-> 2, names |-> PyStr(T_ProjectileBeam)]}

WeaponEntities ==
    {[WithLoaders(profile, [i \in 1..Len(LoaderFields) |->
                               IF i = l.loader THEN l.names ELSE PyNone])
         EXCEPT !.field["part_MissileWeapon"] = l.missile,
                !.specified = profile.specified
                                 \cup (IF l.arrow THEN {"part_AmmoArrow"} ELSE {})] :
        profile \in WeaponProfiles, l \in Loadings}

InitProjectile ==
    /\ ent \in LoaderEntities \cup WeaponEntities
    /\ query = NoQuery
    /\ result = PyNone

\* The fields projectile_object is asked for; '' asks for the projectile.
PartAttrs == {"", "part_Projectile_BaseDamage", "part_GasOnHit_Blueprint"}

EvalProjectileObject(part_attr) ==
    /\ query = NoQuery
    /\ query' = Q("projectile_object", part_attr, "")
    /\ result' = projectile_object(ent, part_attr)
    /\ UNCHANGED ent

EvalDamage ==
    /\ query = NoQuery
    /\ query' = Q("damage", "", "")
    /\ result' = property_access(ent, "damage", damage(ent))
    /\ UNCHANGED ent

EvalPv ==
    /\ query = NoQuery
    /\ query' = Q("pv", "", "")
    /\ result' = property_access(ent, "pv", pv(ent))
    /\ UNCHANGED ent

EvalGasemitted ==
    /\ query = NoQuery
    /\ query' = Q("gasemitted", "", "")
    /\ result' = property_access(ent, "gasemitted", gasemitted(ent))
    /\ UNCHANGED ent

EvalAmmodamagetypes ==
    /\ query = NoQuery
    /\ query' = Q("ammodamagetypes", "", "")
    /\ result' = property_access(ent, "ammodamagetypes", ammodamagetypes(ent))
    /\ UNCHANGED ent

EvalPenetratingammo ==
    /\ query = NoQuery
    /\ query' = Q("penetratingammo", "", "")
    /\ result' = property_access(ent, "penetratingammo", penetratingammo(ent))
    /\ UNCHANGED ent

EvalTemponhit ==
    /\ query = NoQuery
    /\ query' = Q("temponhit", "", "")
    /\ result' = property_access(ent, "temponhit", temponhit(ent))
    /\ UNCHANGED ent

EvalRealitydistortionbased ==
    /\ query = NoQuery
    /\ query' = Q("realitydistortionbased", "", "")
    /\ result' = property_access(ent, "realitydistortionbased", realitydistortionbased(ent))
    /\ UNCHANGED ent

EvalOmniphaseprojectile ==
    /\ query = NoQuery
    /\ query' = Q("omniphaseprojectile", "", "")
    /\ result' = property_access(ent, "omniphaseprojectile", omniphaseprojectile(ent))
    /\ UNCHANGED ent

NextProjectile ==
    \/ \E part_attr \in PartAttrs : EvalProjectileObject(part_attr)
    \/ EvalDamage
    \/ EvalPv
    \/ EvalGasemitted
    \/ EvalAmmodamagetypes
    \/ EvalPenetratingammo
    \/ EvalTemponhit
    \/ EvalRealitydistortionbased
    \/ EvalOmniphaseprojectile

SpecProjectile == InitProjectile /\ [][NextProjectile]_vars

-----------------------------------------------------------------------------
(* Properties of projectile_object *)

\* The order of the loaders as the claim gives it.
ClaimedLoaderOrder ==
    << "part_BioAmmoLoader_ProjectileObject",
       "part_AmmoArrow_ProjectileObject",
       "part_MagazineAmmoLoader_ProjectileObject",
       "part_EnergyAmmoLoader_ProjectileObject",
       "part_LiquidAmmoLoader_ProjectileObject" >>

\* The k-th loader in that order has a value that is set and not empty.
NamesProjectile(k) ==
    /\ ~IsNone(ent.field[ClaimedLoaderOrder[k]])
    /\ Len(ent.field[ClaimedLoaderOrder[k]].s) > 0

HasMissileOrOwnArrow ==
    ~IsNone(ent.field["part_MissileWeapon"]) \/ "part_AmmoArrow" \in ent.specified

\* What the projectile of that name gives for the queried field: the
\* projectile itself, its field, or KeyError when no entity has that name.
Resolved(name) ==
    IF name \notin ProjectileNames THEN Raise("KeyError")
    ELSE IF query.attr = "" THEN PyObject(name)
    ELSE projectile_index[name].field[query.attr]

\* C26: projectile_object resolves the first loader, in the order
\* BioAmmoLoader, AmmoArrow, MagazineAmmoLoader, EnergyAmmoLoader,
\* LiquidAmmoLoader, whose ProjectileObject is set and not empty, whatever later
\* loaders hold; it is absent when the entity has neither a MissileWeapon part
\* nor its own AmmoArrow part, or when no loader names a projectile.
C26_FirstLoaderWins ==
    query.op = "projectile_object" =>
        /\ ~HasMissileOrOwnArrow => IsNone(result)
        /\ (\A k \in 1..5 : ~NamesProjectile(k)) => IsNone(result)
        /\ \A k \in 1..5 :
               (/\ HasMissileOrOwnArrow
                /\ NamesProjectile(k)
                /\ \A j \in 1..(k - 1) : ~NamesProjectile(j))
               => result = Resolved(ent.field[ClaimedLoaderOrder[k]].s)

\* Two loaders name different projectiles: the earlier one is resolved.
C26_Witness ==
    /\ query = Q("projectile_object", "", "")
    /\ ~IsNone(ent.field["part_MissileWeapon"])
    /\ ent.field["part_EnergyAmmoLoader_ProjectileObject"] = PyStr(T_ProjectileGas)
    /\ ent.field["part_LiquidAmmoLoader_ProjectileObject"] = PyStr(T_ProjectileBeam)
    /\ result = PyObject(T_ProjectileGas)

-----------------------------------------------------------------------------
(* The projectile properties without a projectile *)

DelegatedProperties ==
    {"damage", "pv", "gasemitted", "ammodamagetypes", "penetratingammo",
     "temponhit", "realitydistortionbased", "omniphaseprojectile"}

\* projectile_object resolves no projectile.
NoProjectile ==
    \/ ~HasMissileOrOwnArrow
    \/ \A k \in 1..5 : ~NamesProjectile(k)

=============================================================================
